---------------------------- MODULE Spec2Model ----------------------------
(***************************************************************************)
(* A model of excelprocessor.py: the extraction of sheets, drawings, shape *)
(* text and SmartArt hierarchies from an OOXML spreadsheet package.        *)
(*                                                                         *)
(* Strings that the program takes apart (paths, text runs) are sequences   *)
(* of one-character strings; a path such as xl/media/x is written          *)
(* <<"x","l","/","m",...>>.                                                *)
(***************************************************************************)
EXTENDS Integers, Sequences, FiniteSets, TLC

VARIABLES
    nrt,    \* a call of normalize_rel_target and the call that follows it:
            \* [pc, base, target, out, again]
    sa,     \* a call of build_smartart_hierarchy: the parsed data model, the
            \* tables built from it, the stack of build_node calls, the result
    ex,     \* a call of extract_images_and_shapes: the archive, the anchors
            \* and how many are done, the three result lists, the files written
    pe,     \* a call of process_excel: the archive, the sheets and how many
            \* are done, the result so far, the files of the images directory
    rr,     \* a call of read_rels or read_sheet_relationships: the archive,
            \* the owning part, the rels path looked up, the mapping returned
    mn      \* runs of main: the input file, the clock, the files of the output
            \* directory, standard error, how each run ended

vars == <<nrt, sa, ex, pe, rr, mn>>

\* What each operation leaves alone: the state of the other operations.
notPath == <<sa, ex, pe, rr, mn>>
notSmartArt == <<nrt, ex, pe, rr, mn>>
notDrawing == <<nrt, sa, pe, rr, mn>>
notProcess == <<nrt, sa, ex, rr, mn>>
notRels == <<nrt, sa, ex, pe, mn>>
notMain == <<nrt, sa, ex, pe, rr>>

\* The state of an operation that a specification does not run.
Idle == [pc |-> "idle"]

-----------------------------------------------------------------------------
(* Bounds of the model. *)

MaxBaseLen == 3      \* longest base directory, in characters
MaxTargetLen == 5    \* longest relationship target, in characters
MaxPoints == 3       \* most dgm:pt elements of a data model
MaxCxns == 2         \* most dgm:cxn elements of a data model
MaxAnchors == 2      \* most anchor elements of a drawing
MaxSheets == 2       \* most sheet elements of a workbook
RecursionLimit == 4
MaxClock == 2           \* the ticks of the clock during the runs of main
MaxRuns == 2            \* the runs of main on one input and output directory  \* most nested build_node calls before RecursionError
                     \* (the interpreter's recursion limit, scaled down; it
                     \* stays above the number of distinct node ids)

-----------------------------------------------------------------------------
(* Strings as sequences of characters. *)

\* Body(v), with v computed once however often Body uses its argument.
Let(v, Body(_)) == CHOOSE r \in {Body(x) : x \in {v}} : TRUE

PathChars == {"a", ".", "/"}

StringsUpTo(chars, n) == UNION {[1..k -> chars] : k \in 0..n}

StartsWith(s, p) == Len(s) >= Len(p) /\ SubSeq(s, 1, Len(p)) = p

EndsWith(s, p) == Len(s) >= Len(p) /\ SubSeq(s, Len(s) - Len(p) + 1, Len(s)) = p

\* str.split("/"): the pieces between the separators, empty pieces kept.
SplitSep(s) ==
    LET seps == SelectSeq([i \in 1..Len(s) |-> i], LAMBDA i : s[i] = "/")
        first(k) == IF k = 1 THEN 1 ELSE seps[k-1] + 1
        last(k) == IF k = Len(seps) + 1 THEN Len(s) ELSE seps[k] - 1
    IN  [k \in 1..(Len(seps) + 1) |-> SubSeq(s, first(k), last(k))]

\* "/".join(comps)
JoinSep(comps) ==
    LET F[i \in 0..Len(comps)] ==
            IF i = 0 THEN <<>>
            ELSE IF i = 1 THEN comps[1]
            ELSE F[i-1] \o <<"/">> \o comps[i]
    IN  F[Len(comps)]

-----------------------------------------------------------------------------
(* posixpath, as called by normalize_rel_target. *)

DotDot == <<".", ".">>
Dot == <<".">>

\* posixpath.join(a, b): an absolute b replaces a; a separator is put
\* between the two unless a is empty or ends with one.
posixpath_join(a, b) ==
    IF StartsWith(b, <<"/">>) THEN b
    ELSE IF a = <<>> \/ EndsWith(a, <<"/">>) THEN a \o b
    ELSE a \o <<"/">> \o b

\* One round of normpath's loop over the components.
normpath_step(new_comps, comp, initial_slashes) ==
    IF comp = <<>> \/ comp = Dot THEN new_comps
    ELSE IF \/ comp # DotDot
            \/ (initial_slashes = 0 /\ new_comps = <<>>)
            \/ (new_comps # <<>> /\ new_comps[Len(new_comps)] = DotDot)
         THEN Append(new_comps, comp)
    ELSE IF new_comps # <<>> THEN SubSeq(new_comps, 1, Len(new_comps) - 1)
    ELSE new_comps

\* normpath with the final "path or dot" left out.
posixpath_normpath_no_dot(path) ==
    IF path = <<>> THEN Dot
    ELSE
    LET initial_slashes ==
            IF ~StartsWith(path, <<"/">>) THEN 0
            ELSE IF StartsWith(path, <<"/", "/">>) /\ ~StartsWith(path, <<"/", "/", "/">>)
                 THEN 2 ELSE 1
        comps == SplitSep(path)
        F[i \in 0..Len(comps)] ==
            IF i = 0 THEN <<>>
            ELSE Let(F[i-1], LAMBDA new_comps :
                         normpath_step(new_comps, comps[i], initial_slashes))
    IN  [k \in 1..initial_slashes |-> "/"] \o JoinSep(F[Len(comps)])

\* posixpath.normpath(path): empty and "." components dropped, "name/.."
\* collapsed, one or two leading slashes kept, "." for an empty result.
posixpath_normpath(path) ==
    IF path = <<>> THEN Dot
    ELSE
    LET initial_slashes ==
            IF ~StartsWith(path, <<"/">>) THEN 0
            ELSE IF StartsWith(path, <<"/", "/">>) /\ ~StartsWith(path, <<"/", "/", "/">>)
                 THEN 2 ELSE 1
        comps == SplitSep(path)
        F[i \in 0..Len(comps)] ==
            IF i = 0 THEN <<>>
            ELSE Let(F[i-1], LAMBDA new_comps :
                         normpath_step(new_comps, comps[i], initial_slashes))
        p == [k \in 1..initial_slashes |-> "/"] \o JoinSep(F[Len(comps)])
    IN  IF p = <<>> THEN Dot ELSE p

\* while joined.startswith("./"): joined = joined[2:]
RECURSIVE strip_dot_slash(_)
strip_dot_slash(joined) ==
    IF StartsWith(joined, <<".", "/">>)
    THEN strip_dot_slash(SubSeq(joined, 3, Len(joined)))
    ELSE joined

normalize_rel_target(base_dir_in_zip, target) ==
    strip_dot_slash(posixpath_normpath(posixpath_join(base_dir_in_zip, target)))

-----------------------------------------------------------------------------
(* Path predicates used by the properties. *)

\* p has a ".." path segment.
HasDotDotSegment(p) == \E i \in 1..Len(SplitSep(p)) : SplitSep(p)[i] = DotDot

\* p has a "./" segment: a "." component followed by a separator.
HasDotSlashSegment(p) == \E i \in 1..(Len(SplitSep(p)) - 1) : SplitSep(p)[i] = Dot

\* p has a "../" segment: a ".." component followed by a separator.
HasDotDotSlashSegment(p) == \E i \in 1..(Len(SplitSep(p)) - 1) : SplitSep(p)[i] = DotDot

-----------------------------------------------------------------------------
(* normalize_rel_target called on a base directory and a target, and then  *)
(* on its own result with an empty target.                                 *)

\* The base directories the program passes: "xl", or the dirname of a path
\* that normalize_rel_target returned (empty, or normalised and not ".").
BaseDirs ==
    {d \in StringsUpTo(PathChars, MaxBaseLen) :
        d = <<>> \/ (posixpath_normpath(d) = d /\ d # Dot)}

Targets == StringsUpTo(PathChars, MaxTargetLen)

PathInit ==
    /\ nrt \in [pc : {"start"}, base : BaseDirs, target : Targets,
                 out : {<<>>}, again : {<<>>}]
    /\ sa = Idle
    /\ ex = Idle
    /\ pe = Idle
    /\ rr = Idle
    /\ mn = Idle

Resolve ==
    /\ nrt.pc = "start"
    /\ nrt' = [nrt EXCEPT !.pc = "resolved",
                          !.out = normalize_rel_target(nrt.base, nrt.target)]
    /\ UNCHANGED notPath

ResolveAgain ==
    /\ nrt.pc = "resolved"
    /\ nrt' = [nrt EXCEPT !.pc = "done",
                          !.again = normalize_rel_target(nrt.out, <<>>)]
    /\ UNCHANGED notPath

PathNext == Resolve \/ ResolveAgain

-----------------------------------------------------------------------------
(* Text of a:t nodes.  A text is a sequence of characters; the only        *)
(* whitespace of the model's alphabet is the space.                        *)

RECURSIVE str_lstrip(_)
str_lstrip(s) == IF s # <<>> /\ Head(s) = " " THEN str_lstrip(Tail(s)) ELSE s

RECURSIVE str_rstrip(_)
str_rstrip(s) ==
    IF s # <<>> /\ s[Len(s)] = " " THEN str_rstrip(SubSeq(s, 1, Len(s) - 1)) ELSE s

\* str.strip()
str_strip(s) == str_rstrip(str_lstrip(s))

\* " ".join(pieces)
join_space(pieces) ==
    LET F[i \in 0..Len(pieces)] ==
            IF i = 0 THEN <<>>
            ELSE IF i = 1 THEN pieces[1]
            ELSE F[i-1] \o <<" ">> \o pieces[i]
    IN  F[Len(pieces)]

\* " ".join(t.strip() for t in texts if t is not None).strip()
\* (read_text_nodes has already left out the a:t nodes without text)
join_text_nodes(texts) ==
    str_strip(join_space([i \in 1..Len(texts) |-> str_strip(texts[i])]))

-----------------------------------------------------------------------------
(* build_smartart_hierarchy: the data model part is parsed into the tables *)
(* id_to_text, children_map and indegree, the roots are chosen, and        *)
(* build_node is called for each of them; build_node calls itself for each *)
(* child id.  sa.stack holds the build_node calls in progress, innermost   *)
(* last, each with the children it has built so far.                       *)

NodeIds == {"A", "B", "C"}
NoId == ""          \* an attribute that is absent (or empty): falsy in the code
NoName == <<>>      \* no prSet name

\* The dgm:pt elements a data model is made of: text runs under the point,
\* and the name of its prSet.
PointChoices ==
    { [modelId |-> "A", runs |-> << <<"A">> >>, name |-> NoName],
      [modelId |-> "B", runs |-> << <<" ">> >>, name |-> <<"b">>],
      [modelId |-> "C", runs |-> <<>>,          name |-> NoName],
      [modelId |-> NoId, runs |-> << <<"x">> >>, name |-> NoName] }

\* The dgm:cxn elements: any source and destination among the ids, and
\* connections that lack one of the two attributes.
CxnChoices ==
    [srcId : NodeIds, destId : NodeIds]
        \cup { [srcId |-> "A", destId |-> NoId], [srcId |-> NoId, destId |-> "B"] }

SeqsUpTo(S, n) == UNION {[1..k -> S] : k \in 0..n}

\* The value of the point's text: its runs joined, or the prSet name.
point_text(pt) ==
    LET text_value == join_text_nodes(pt.runs)
    IN  IF text_value = <<>> /\ pt.name # NoName THEN pt.name ELSE text_value

\* The keys of a dict kept as a sequence of [id, text] in insertion order.
dict_keys(d) == [i \in 1..Len(d) |-> d[i].id]

\* d[key] = text: a new key goes to the end, a known key keeps its place.
dict_set(d, key, text) ==
    IF \E i \in 1..Len(d) : d[i].id = key
    THEN [i \in 1..Len(d) |-> IF d[i].id = key THEN [id |-> key, text |-> text] ELSE d[i]]
    ELSE Append(d, [id |-> key, text |-> text])

\* d.get(key, "")
dict_get(d, key) ==
    IF \E i \in 1..Len(d) : d[i].id = key
    THEN (CHOOSE e \in {d[i] : i \in 1..Len(d)} : e.id = key).text
    ELSE <<>>

\* Lines 273-285: the points with a model id, in document order.
parse_points(points) ==
    LET F[i \in 0..Len(points)] ==
            IF i = 0 THEN <<>>
            ELSE IF points[i].modelId # NoId
                 THEN dict_set(F[i-1], points[i].modelId, point_text(points[i]))
            ELSE F[i-1]
    IN  F[Len(points)]

\* Line 293: a connection counts when it has both ids.
cxn_counts(cxn) == cxn.srcId # NoId /\ cxn.destId # NoId

\* children_map with each destination put in front: src.insert(0, dst).
parse_children_map_reversed(cxns) ==
    [id \in NodeIds |->
        LET F[i \in 0..Len(cxns)] ==
                IF i = 0 THEN <<>>
                ELSE IF cxn_counts(cxns[i]) /\ cxns[i].srcId = id
                     THEN <<cxns[i].destId>> \o F[i-1]
                ELSE F[i-1]
        IN  F[Len(cxns)]]

\* Lines 288-294: children_map[src].append(dst), in declaration order.
parse_children_map(cxns) ==
    [id \in NodeIds |->
        LET F[i \in 0..Len(cxns)] ==
                IF i = 0 THEN <<>>
                ELSE IF cxn_counts(cxns[i]) /\ cxns[i].srcId = id
                     THEN Append(F[i-1], cxns[i].destId)
                ELSE F[i-1]
        IN  F[Len(cxns)]]

\* Lines 289-297: indegree[dst] += 1.
parse_indegree(cxns) ==
    [id \in NodeIds |->
        Cardinality({i \in 1..Len(cxns) : cxn_counts(cxns[i]) /\ cxns[i].destId = id})]

\* The roots chosen without looking at the indegree.
select_roots_all(id_to_text, indegree) == dict_keys(id_to_text)

\* Line 300: the point ids with indegree zero, in the order of id_to_text.
select_roots(id_to_text, indegree) ==
    SelectSeq(dict_keys(id_to_text), LAMBDA node_id : indegree[node_id] = 0)

\* Line 311: the roots, or every point id when there is no root.
ids_to_build(id_to_text, roots) ==
    IF roots # <<>> THEN roots ELSE dict_keys(id_to_text)

SmartArtNode(id, text, children) == [id |-> id, text |-> text, children |-> children]

\* A build_node call that has just started.
Frame(node_id) == [node_id |-> node_id, children |-> <<>>]

\* The build_node call in progress, and the child ids it iterates over.
TopFrame(s) == s.stack[Len(s.stack)]
child_ids(s) == s.children_map[TopFrame(s).node_id]

\* Lines 270-300 and the choice of line 311.
parse_data_model(s) ==
    LET id_to_text == parse_points(s.points)
        indegree == parse_indegree(s.cxns)
        roots == select_roots(id_to_text, indegree)
    IN  [s EXCEPT !.pc = "build",
                  !.id_to_text = id_to_text,
                  !.children_map = parse_children_map(s.cxns),
                  !.indegree = indegree,
                  !.roots = roots,
                  !.todo = ids_to_build(id_to_text, roots)]

\* build_node entered without a new level of the call stack: a walk that
\* replaces the call in progress, which no recursion limit stops.
call_build_node_flat(s, node_id) == [s EXCEPT !.stack = <<Frame(node_id)>>]

\* build_node(node_id) is entered.
call_build_node(s, node_id) == [s EXCEPT !.stack = Append(@, Frame(node_id))]

\* Lines 303-309: the innermost build_node returns its node to its caller:
\* to the comprehension of the enclosing build_node, or to that of line 311.
return_node(s) ==
    LET top == TopFrame(s)
        node == SmartArtNode(top.node_id, dict_get(s.id_to_text, top.node_id),
                             top.children)
        d == Len(s.stack)
    IN  IF d = 1
        THEN [s EXCEPT !.stack = <<>>, !.nodes = Append(@, node)]
        ELSE [s EXCEPT !.stack =
                 Append(SubSeq(s.stack, 1, d - 2),
                        [s.stack[d-1] EXCEPT !.children = Append(@, node)])]

SmartArtInputs ==
    [points : SeqsUpTo(PointChoices, MaxPoints), cxns : SeqsUpTo(CxnChoices, MaxCxns)]

\* Before the data model part is read.
SaStart ==
    [pc |-> "load", points |-> <<>>, cxns |-> <<>>,
     id_to_text |-> <<>>, children_map |-> [id \in NodeIds |-> <<>>],
     indegree |-> [id \in NodeIds |-> 0], roots |-> <<>>, todo |-> <<>>,
     stack |-> <<>>, nodes |-> <<>>, error |-> "none"]

SmartArtInit ==
    /\ sa = SaStart
    /\ nrt = Idle
    /\ ex = Idle
    /\ pe = Idle
    /\ rr = Idle
    /\ mn = Idle

\* Lines 270-300: the part is read and parsed into the tables; its dgm:pt
\* and dgm:cxn elements are whatever the package holds.
ParseDataModel ==
    /\ sa.pc = "load"
    /\ \E in \in SmartArtInputs :
        sa' = parse_data_model([sa EXCEPT !.points = in.points, !.cxns = in.cxns])
    /\ UNCHANGED notSmartArt

\* Line 270: the part is missing or is not well-formed XML.
LoadXmlFails ==
    /\ sa.pc = "load"
    /\ sa' = [sa EXCEPT !.pc = "raised", !.error = "ParseError"]
    /\ UNCHANGED notSmartArt

\* Line 311: the next root's build_node is called.
BuildRoot ==
    /\ sa.pc = "build"
    /\ sa.stack = <<>>
    /\ Len(sa.nodes) < Len(sa.todo)
    /\ sa' = call_build_node(sa, sa.todo[Len(sa.nodes) + 1])
    /\ UNCHANGED notSmartArt

\* Line 308: build_node calls itself for its next child id.
BuildChild ==
    /\ sa.pc = "build"
    /\ sa.stack # <<>>
    /\ Len(TopFrame(sa).children) < Len(child_ids(sa))
    /\ Len(sa.stack) < RecursionLimit
    /\ sa' = call_build_node(sa, child_ids(sa)[Len(TopFrame(sa).children) + 1])
    /\ UNCHANGED notSmartArt

\* Line 308, at the interpreter's recursion limit: RecursionError leaves
\* every build_node call and build_smartart_hierarchy.
RaiseRecursionError ==
    /\ sa.pc = "build"
    /\ sa.stack # <<>>
    /\ Len(TopFrame(sa).children) < Len(child_ids(sa))
    /\ Len(sa.stack) >= RecursionLimit
    /\ sa' = [sa EXCEPT !.pc = "raised", !.stack = <<>>, !.nodes = <<>>,
                         !.error = "RecursionError"]
    /\ UNCHANGED notSmartArt

\* Lines 305-309: a build_node call has built all its children and returns.
ReturnNode ==
    /\ sa.pc = "build"
    /\ sa.stack # <<>>
    /\ Len(TopFrame(sa).children) = Len(child_ids(sa))
    /\ sa' = return_node(sa)
    /\ UNCHANGED notSmartArt

\* Line 312: return nodes.
ReturnNodes ==
    /\ sa.pc = "build"
    /\ sa.stack = <<>>
    /\ Len(sa.nodes) = Len(sa.todo)
    /\ sa' = [sa EXCEPT !.pc = "returned"]
    /\ UNCHANGED notSmartArt

\* The steps of the build, once the tables are there.
BuildNext ==
    \/ BuildRoot
    \/ BuildChild
    \/ RaiseRecursionError
    \/ ReturnNode
    \/ ReturnNodes

SmartArtNext ==
    \/ ParseDataModel
    \/ LoadXmlFails
    \/ BuildRoot
    \/ BuildChild
    \/ RaiseRecursionError
    \/ ReturnNode
    \/ ReturnNodes

-----------------------------------------------------------------------------
(* Optional values (an element or attribute that may be absent).           *)

None == <<>>
Some(x) == <<x>>
Get(o) == o[1]

-----------------------------------------------------------------------------
(* More of posixpath, os.path, re and int, as the code calls them.         *)

\* s.rfind(c), counted from 1; 0 when c is not in s.
LastIndexOf(s, c) ==
    IF \E i \in 1..Len(s) : s[i] = c
    THEN CHOOSE i \in 1..Len(s) : s[i] = c /\ \A j \in (i+1)..Len(s) : s[j] # c
    ELSE 0

RECURSIVE rstrip_slashes(_)
rstrip_slashes(s) ==
    IF s # <<>> /\ s[Len(s)] = "/" THEN rstrip_slashes(SubSeq(s, 1, Len(s) - 1)) ELSE s

\* posixpath.dirname(p): up to the last separator, trailing separators
\* dropped unless the head is made of separators only.
posixpath_dirname(p) ==
    LET head == SubSeq(p, 1, LastIndexOf(p, "/"))
    IN  IF head # <<>> /\ (\E k \in 1..Len(head) : head[k] # "/")
        THEN rstrip_slashes(head) ELSE head

\* posixpath.basename(p): what follows the last separator.
posixpath_basename(p) == SubSeq(p, LastIndexOf(p, "/") + 1, Len(p))

\* os.path.splitext(p)[1]: from the last dot of the last component on,
\* unless only dots come before that dot in the component.
splitext_ext(p) ==
    LET sepIndex == LastIndexOf(p, "/")
        dotIndex == LastIndexOf(p, ".")
    IN  IF dotIndex > sepIndex /\ (\E k \in (sepIndex+1)..(dotIndex-1) : p[k] # ".")
        THEN SubSeq(p, dotIndex, Len(p)) ELSE <<>>

DigitChars == <<"0", "1", "2", "3", "4", "5", "6", "7", "8", "9">>
IsDigit(c) == \E d \in 1..10 : DigitChars[d] = c
DigitValue(c) == (CHOOSE d \in 1..10 : DigitChars[d] = c) - 1

LowerChars ==
    {"a", "b", "c", "d", "e", "f", "g", "h", "i", "j", "k", "l", "m",
     "n", "o", "p", "q", "r", "s", "t", "u", "v", "w", "x", "y", "z"}
UpperChars ==
    {"A", "B", "C", "D", "E", "F", "G", "H", "I", "J", "K", "L", "M",
     "N", "O", "P", "Q", "R", "S", "T", "U", "V", "W", "X", "Y", "Z"}

\* The characters of the class [A-Za-z0-9_-].
IsSafeChar(c) == c \in LowerChars \cup UpperChars \cup {"_", "-"} \/ IsDigit(c)

\* re.sub(r"[^A-Za-z0-9_-]+", "_", sheet_name): every maximal run of other
\* characters becomes one underscore.
safe_sheet_name(sheet_name) ==
    LET F[i \in 0..Len(sheet_name)] ==
            IF i = 0 THEN <<>>
            ELSE IF IsSafeChar(sheet_name[i]) THEN Append(F[i-1], sheet_name[i])
            ELSE IF i > 1 /\ ~IsSafeChar(sheet_name[i-1]) THEN F[i-1]
            ELSE Append(F[i-1], "_")
    IN  F[Len(sheet_name)]

\* str(n) for n >= 0
RECURSIVE int_to_str(_)
int_to_str(n) ==
    IF n < 10 THEN <<DigitChars[n+1]>>
    ELSE int_to_str(n \div 10) \o <<DigitChars[(n % 10) + 1]>>

\* int(text): surrounding whitespace stripped, an optional sign, then
\* digits, single underscores between digits allowed.  [ok, value].
python_int(text) ==
    LET t == str_strip(text)
        signed == t # <<>> /\ t[1] \in {"+", "-"}
        body == IF signed THEN Tail(t) ELSE t
        valid ==
            /\ body # <<>>
            /\ \A i \in 1..Len(body) :
                \/ IsDigit(body[i])
                \/ /\ body[i] = "_" /\ 1 < i /\ i < Len(body)
                   /\ IsDigit(body[i-1]) /\ IsDigit(body[i+1])
        digits == SelectSeq(body, IsDigit)
        V[i \in 0..Len(digits)] ==
            IF i = 0 THEN 0 ELSE 10 * V[i-1] + DigitValue(digits[i])
    IN  IF ~valid THEN [ok |-> FALSE, value |-> 0]
        ELSE [ok |-> TRUE,
              value |-> IF signed /\ t[1] = "-" THEN 0 - V[Len(digits)] ELSE V[Len(digits)]]


-----------------------------------------------------------------------------
(* The package: a function from the names of the archive to its parts.  A  *)
(* part is not well-formed XML, or holds the elements the code looks for   *)
(* in it; a media part holds bytes.                                        *)

MalformedPart == [kind |-> "malformed"]
MediaPart(bytes) == [kind |-> "media", bytes |-> bytes]
RelsPart(rels) == [kind |-> "rels", rels |-> rels]
DrawingPart(anchors) == [kind |-> "drawing", anchors |-> anchors]

Relationship(id, type, target) == [Id |-> id, Type |-> type, Target |-> target]

\* load_xml(zipf, path) raises: KeyError for a name that is not in the
\* archive, ParseError for a part that is not well-formed XML.
load_xml_raises(zipf, path) ==
    path \notin DOMAIN zipf \/ zipf[path].kind \in {"malformed", "media"}

\* root.findall(".//pr:Relationship", NAMESPACES)
relationship_elements(part) == IF part.kind = "rels" THEN part.rels ELSE <<>>

\* drawing_root.findall("xdr:<tag>", NAMESPACES)
anchor_elements(part, tag) ==
    IF part.kind = "drawing"
    THEN SelectSeq(part.anchors, LAMBDA a : a.tag = tag) ELSE <<>>

\* zipf.open(name).read()
part_bytes(part) == IF part.kind = "media" THEN part.bytes ELSE part

\* The dict rels[Id] = {Type, Target}, as the sequence of its items: a new
\* Id goes to the end, a repeated Id keeps its place and takes the new value.
rels_from(elems) ==
    LET F[i \in 0..Len(elems)] ==
            IF i = 0 THEN <<>>
            ELSE Let(F[i-1], LAMBDA rels :
                     IF \E j \in 1..Len(rels) : rels[j].Id = elems[i].Id
                     THEN [j \in 1..Len(rels) |->
                              IF rels[j].Id = elems[i].Id THEN elems[i] ELSE rels[j]]
                     ELSE Append(rels, elems[i]))
    IN  F[Len(elems)]

\* rid in rels
rels_has(rels, rid) == \E j \in 1..Len(rels) : rels[j].Id = rid

\* rels[rid]["Target"]
rels_target(rels, rid) == (CHOOSE r \in {rels[j] : j \in 1..Len(rels)} : r.Id = rid).Target

\* Lines 112-114: <dir>/_rels/<basename>.rels
read_rels_path(part_path) ==
    posixpath_join(posixpath_join(posixpath_dirname(part_path), <<"_", "r", "e", "l", "s">>),
                   posixpath_basename(part_path) \o <<".", "r", "e", "l", "s">>)

\* read_rels with load_xml called without the test of line 116: a rels
\* file that is not in the archive raises.
read_rels_required(zipf, part_path) ==
    IF load_xml_raises(zipf, read_rels_path(part_path)) THEN [raised |-> TRUE, rels |-> <<>>]
    ELSE [raised |-> FALSE,
          rels |-> rels_from(relationship_elements(zipf[read_rels_path(part_path)]))]

\* read_rels(zipf, part_path): the mapping, empty without a rels file;
\* raises when the rels file is not well-formed.
read_rels(zipf, part_path) ==
    LET rels_path == read_rels_path(part_path)
    IN  IF rels_path \notin DOMAIN zipf THEN [raised |-> FALSE, rels |-> <<>>]
        ELSE IF load_xml_raises(zipf, rels_path) THEN [raised |-> TRUE, rels |-> <<>>]
        ELSE [raised |-> FALSE, rels |-> rels_from(relationship_elements(zipf[rels_path]))]

-----------------------------------------------------------------------------
(* extract_anchor and extract_images_and_shapes.  An anchor element is     *)
(* [tag, from, pic, sp, graphicFrame]; each child is None or Some(...).    *)

\* Lines 151-158: the integer of a child of xdr:from, 0 when the child or
\* its text is missing or int() raises.  A child is None or Some(text),
\* the text None for an empty element, else Some(characters).
\* read_child with -1 in place of the 0 of line 158.
read_child_minus_one(child) ==
    IF child = None \/ Get(child) = None THEN 0
    ELSE IF python_int(Get(Get(child))).ok THEN python_int(Get(Get(child))).value
    ELSE 0 - 1

read_child(child) ==
    IF child = None \/ Get(child) = None THEN 0
    ELSE python_int(Get(Get(child))).value

AnchorPos(col, colOff, row, rowOff) ==
    [col |-> col, colOff |-> colOff, row |-> row, rowOff |-> rowOff]

\* Lines 148-171.
extract_anchor(anchor_elem) ==
    IF anchor_elem.from # None
    THEN LET from_elem == Get(anchor_elem.from)
         IN  AnchorPos(read_child(from_elem.col), read_child(from_elem.colOff),
                       read_child(from_elem.row), read_child(from_elem.rowOff))
    ELSE AnchorPos(0, 0, 0, 0)

\* The anchors of both kinds as they come in the document.
iter_anchors_in_document_order(drawing_root) ==
    IF drawing_root.kind = "drawing" THEN drawing_root.anchors ELSE <<>>

\* Lines 192-195: the twoCellAnchor children, then the oneCellAnchor ones.
iter_anchors(drawing_root) ==
    anchor_elements(drawing_root, "twoCellAnchor")
        \o anchor_elements(drawing_root, "oneCellAnchor")

ImagesDir == <<"i", "m", "a", "g", "e", "s">>

ImageInfo(sheet_name, image_filename, original_part, anchor) ==
    [sheet_name |-> sheet_name, image_filename |-> image_filename,
     original_part |-> original_part, anchor |-> anchor]

ShapeText(sheet_name, text, anchor) ==
    [sheet_name |-> sheet_name, text |-> text, anchor |-> anchor]

\* The name with the counter taken before it is incremented.
image_out_name_zero_based(sheet_name, image_counter, part_in_zip) ==
    LET ext == IF splitext_ext(part_in_zip) # <<>> THEN splitext_ext(part_in_zip)
               ELSE <<".", "b", "i", "n">>
    IN  safe_sheet_name(sheet_name) \o <<"_", "i", "m", "g", "_">> \o int_to_str(image_counter - 1) \o ext

\* Line 215: f"{safe_sheet}_img_{image_counter}{ext}"
image_out_name(sheet_name, image_counter, part_in_zip) ==
    LET ext == IF splitext_ext(part_in_zip) # <<>> THEN splitext_ext(part_in_zip)
               ELSE <<".", "b", "i", "n">>
    IN  safe_sheet_name(sheet_name) \o <<"_", "i", "m", "g", "_">> \o int_to_str(image_counter) \o ext

\* open(out_path, "wb") and copyfileobj: the file of that name now holds data.
write_file(files, name, data) ==
    [n \in DOMAIN files \cup {name} |-> IF n = name THEN data ELSE files[n]]

\* A picture that cannot be saved taken as an error: the lookups
\* rels[rid] and zipf.open(part_in_zip) made without the tests before them.
extract_picture_strict(e, anchor_pos, pic) ==
    IF \/ pic.blip = None
       \/ ~rels_has(e.rels, Get(pic.blip).embed)
       \/ normalize_rel_target(e.base_dir_in_zip,
                                rels_target(e.rels, Get(pic.blip).embed)) \notin DOMAIN e.zipf
    THEN [e EXCEPT !.pc = "raised"]
    ELSE
    LET part_in_zip == normalize_rel_target(e.base_dir_in_zip,
                                            rels_target(e.rels, Get(pic.blip).embed))
        out_name == image_out_name(e.sheet_name, e.image_counter + 1, part_in_zip)
    IN  [e EXCEPT
            !.image_counter = @ + 1,
            !.files = write_file(@, out_name, part_bytes(e.zipf[part_in_zip])),
            !.written = Append(@, out_name),
            !.images = Append(@, ImageInfo(e.sheet_name,
                           ImagesDir \o <<"/">> \o out_name, part_in_zip, anchor_pos))]

\* Lines 202-226: the anchor has a pic child.
extract_picture(e, anchor_pos, pic) ==
    IF pic.blip = None THEN e
    ELSE
    LET rid == Get(pic.blip).embed
    IN  IF rid = "" \/ ~rels_has(e.rels, rid) THEN e
        ELSE
        LET part_in_zip == normalize_rel_target(e.base_dir_in_zip, rels_target(e.rels, rid))
        IN  IF part_in_zip \notin DOMAIN e.zipf THEN e
            ELSE
            LET image_counter == e.image_counter + 1
                out_name == image_out_name(e.sheet_name, image_counter, part_in_zip)
            IN  [e EXCEPT
                    !.image_counter = image_counter,
                    !.files = write_file(@, out_name, part_bytes(e.zipf[part_in_zip])),
                    !.written = Append(@, out_name),
                    !.images = Append(@, ImageInfo(e.sheet_name,
                                   ImagesDir \o <<"/">> \o out_name, part_in_zip, anchor_pos))]

\* Lines 44-50: the texts of the a:t descendants, in document order; an
\* a:t node is None when it has no text, or Some(text).
read_text_nodes(elem) ==
    LET with_text == SelectSeq(elem, LAMBDA t_node : t_node # None)
    IN  [i \in 1..Len(with_text) |-> Get(with_text[i])]

\* Lines 230-237: the anchor has an sp child.
extract_shape(e, anchor_pos, sp) ==
    IF sp.txBody = None THEN e
    ELSE
    LET text_content == join_text_nodes(read_text_nodes(Get(sp.txBody)))
    IN  IF text_content # <<>>
        THEN [e EXCEPT !.shapes = Append(@, ShapeText(e.sheet_name, text_content, anchor_pos))]
        ELSE e

\* Lines 251-255 and 258-262: the relationship id of one attribute of
\* dgm:relIds gives a reference when it is in the rels.
smartart_ref(e, anchor_pos, refs, rid) ==
    IF rid # "" /\ rels_has(e.rels, rid)
    THEN Append(refs, [anchor |-> anchor_pos, rid |-> rid,
                       path |-> normalize_rel_target(e.base_dir_in_zip,
                                                     rels_target(e.rels, rid))])
    ELSE refs

\* Lines 241-262: the anchor has a graphicFrame child: the dm attribute,
\* then lo, qs and cs.
extract_graphic_frame(e, anchor_pos, gframe) ==
    IF gframe.graphicData = None THEN e
    ELSE
    LET gdata == Get(gframe.graphicData)
    IN  IF ~EndsWith(gdata.uri, <<"/", "d", "i", "a", "g", "r", "a", "m">>) \/ gdata.relIds = None THEN e
        ELSE
        LET rel_ids == Get(gdata.relIds)
            with_dm == smartart_ref(e, anchor_pos, e.smartart_refs, rel_ids.dm)
            with_lo == smartart_ref(e, anchor_pos, with_dm, rel_ids.lo)
            with_qs == smartart_ref(e, anchor_pos, with_lo, rel_ids.qs)
            with_cs == smartart_ref(e, anchor_pos, with_qs, rel_ids.cs)
        IN  [e EXCEPT !.smartart_refs = with_cs]

\* A round of the loop in which a kind that gave no item does not end the
\* round: the anchor is then looked at for the next kind as well.
extract_step_falls_through(e) ==
    LET anchor == e.anchors[e.done + 1]
        anchor_pos == extract_anchor(anchor)
        next == [e EXCEPT !.done = @ + 1]
        after_pic == IF anchor.pic # None
                     THEN extract_picture(next, anchor_pos, Get(anchor.pic))
                     ELSE next
        after_sp == IF after_pic = next /\ anchor.sp # None
                    THEN extract_shape(next, anchor_pos, Get(anchor.sp))
                    ELSE after_pic
    IN  IF after_sp = next /\ anchor.graphicFrame # None
        THEN extract_graphic_frame(next, anchor_pos, Get(anchor.graphicFrame))
        ELSE after_sp

\* Lines 198-263: one round of the loop over the anchors.
extract_step(e) ==
    LET anchor == e.anchors[e.done + 1]
        anchor_pos == extract_anchor(anchor)
        next == [e EXCEPT !.done = @ + 1]
    IN  IF anchor.pic # None THEN extract_picture(next, anchor_pos, Get(anchor.pic))
        ELSE IF anchor.sp # None THEN extract_shape(next, anchor_pos, Get(anchor.sp))
        ELSE IF anchor.graphicFrame # None
             THEN extract_graphic_frame(next, anchor_pos, Get(anchor.graphicFrame))
        ELSE next

\* Lines 183-197: the drawing and its rels are loaded; either may raise.
\* files is what the images directory holds at the call.
extract_begin(zipf, drawing_path, sheet_name, files) ==
    LET failed == load_xml_raises(zipf, drawing_path) \/ read_rels(zipf, drawing_path).raised
    IN  [pc |-> IF failed THEN "raised" ELSE "loop",
         zipf |-> zipf, drawing_path |-> drawing_path, sheet_name |-> sheet_name,
         rels |-> IF failed THEN <<>> ELSE read_rels(zipf, drawing_path).rels,
         base_dir_in_zip |-> posixpath_dirname(drawing_path),
         anchors |-> IF failed THEN <<>> ELSE iter_anchors(zipf[drawing_path]),
         done |-> 0, image_counter |-> 0,
         images |-> <<>>, shapes |-> <<>>, smartart_refs |-> <<>>,
         files |-> files, written |-> <<>>]

-----------------------------------------------------------------------------
(* The drawings extract_images_and_shapes is run on.                       *)

DrawingPath == <<"x", "l", "/", "d", "r", "a", "w", "i", "n", "g", "s", "/", "d", "r", "a", "w", "i", "n", "g", "1", ".", "x", "m", "l">>
ImagePart == <<"x", "l", "/", "m", "e", "d", "i", "a", "/", "i", "m", "a", "g", "e", "1", ".", "p", "n", "g">>
ImagePartNoExt == <<"x", "l", "/", "m", "e", "d", "i", "a", "/", "i", "m", "a", "g", "e", "2">>
DataModelPath == <<"x", "l", "/", "d", "i", "a", "g", "r", "a", "m", "s", "/", "d", "a", "t", "a", "1", ".", "x", "m", "l">>
LayoutPath == <<"x", "l", "/", "d", "i", "a", "g", "r", "a", "m", "s", "/", "l", "a", "y", "o", "u", "t", "1", ".", "x", "m", "l">>

ImageType == <<"h", "t", "t", "p", ":", "/", "/", "s", "c", "h", "e", "m", "a", "s", ".", "o", "p", "e", "n", "x", "m", "l", "f", "o", "r", "m", "a", "t", "s", ".", "o", "r", "g", "/", "o", "f", "f", "i", "c", "e", "D", "o", "c", "u", "m", "e", "n", "t", "/", "2", "0", "0", "6", "/", "r", "e", "l", "a", "t", "i", "o", "n", "s", "h", "i", "p", "s", "/", "i", "m", "a", "g", "e">>
DiagramDataType == <<"h", "t", "t", "p", ":", "/", "/", "s", "c", "h", "e", "m", "a", "s", ".", "m", "i", "c", "r", "o", "s", "o", "f", "t", ".", "c", "o", "m", "/", "o", "f", "f", "i", "c", "e", "/", "2", "0", "0", "7", "/", "r", "e", "l", "a", "t", "i", "o", "n", "s", "h", "i", "p", "s", "/", "d", "i", "a", "g", "r", "a", "m", "D", "a", "t", "a">>
DiagramLayoutType == <<"h", "t", "t", "p", ":", "/", "/", "s", "c", "h", "e", "m", "a", "s", ".", "m", "i", "c", "r", "o", "s", "o", "f", "t", ".", "c", "o", "m", "/", "o", "f", "f", "i", "c", "e", "/", "2", "0", "0", "7", "/", "r", "e", "l", "a", "t", "i", "o", "n", "s", "h", "i", "p", "s", "/", "d", "i", "a", "g", "r", "a", "m", "L", "a", "y", "o", "u", "t">>
DiagramUri == <<"h", "t", "t", "p", ":", "/", "/", "s", "c", "h", "e", "m", "a", "s", ".", "o", "p", "e", "n", "x", "m", "l", "f", "o", "r", "m", "a", "t", "s", ".", "o", "r", "g", "/", "d", "r", "a", "w", "i", "n", "g", "m", "l", "/", "2", "0", "0", "6", "/", "d", "i", "a", "g", "r", "a", "m">>
ChartUri == <<"h", "t", "t", "p", ":", "/", "/", "s", "c", "h", "e", "m", "a", "s", ".", "o", "p", "e", "n", "x", "m", "l", "f", "o", "r", "m", "a", "t", "s", ".", "o", "r", "g", "/", "d", "r", "a", "w", "i", "n", "g", "m", "l", "/", "2", "0", "0", "6", "/", "c", "h", "a", "r", "t">>

\* The Relationship elements of xl/drawings/_rels/drawing1.xml.rels.
DrawingRels ==
    << Relationship("rId1", ImageType, <<".", ".", "/", "m", "e", "d", "i", "a", "/", "i", "m", "a", "g", "e", "1", ".", "p", "n", "g">>),
       Relationship("rId2", ImageType, <<".", ".", "/", "m", "e", "d", "i", "a", "/", "i", "m", "a", "g", "e", "2">>),
       Relationship("rId3", ImageType, <<".", ".", "/", "m", "e", "d", "i", "a", "/", "m", "i", "s", "s", "i", "n", "g", ".", "p", "n", "g">>),
       Relationship("rId4", DiagramDataType, <<".", ".", "/", "d", "i", "a", "g", "r", "a", "m", "s", "/", "d", "a", "t", "a", "1", ".", "x", "m", "l">>),
       Relationship("rId5", DiagramLayoutType, <<".", ".", "/", "d", "i", "a", "g", "r", "a", "m", "s", "/", "l", "a", "y", "o", "u", "t", "1", ".", "x", "m", "l">>),
       Relationship("rId6", DiagramDataType, <<".", ".", "/", "d", "i", "a", "g", "r", "a", "m", "s", "/", "d", "a", "t", "a", "2", ".", "x", "m", "l">>) >>

\* An xdr:from element; a child is None, Some(None) when it is empty, or
\* Some(Some(text)).
FromElem(col, colOff, row, rowOff) ==
    Some([col |-> col, colOff |-> colOff, row |-> row, rowOff |-> rowOff])
ChildText(text) == Some(Some(text))

FromChoices ==
    << FromElem(ChildText(<<"3">>), ChildText(<<"0">>), ChildText(<<"1", "2">>), ChildText(<<"9", "5", "2", "5">>)),
       FromElem(ChildText(<<" ", "7", " ">>), None, ChildText(<<"x">>), Some(None)),
       None >>

Anchor(tag, from, pic, sp, graphicFrame) ==
    [tag |-> tag, from |-> from, pic |-> pic, sp |-> sp, graphicFrame |-> graphicFrame]
Pic(rid) == Some([blip |-> Some([embed |-> rid])])
PicWithoutBlip == Some([blip |-> None])
Sp(t_nodes) == Some([txBody |-> Some(t_nodes)])
SpWithoutBody == Some([txBody |-> None])
RelIds(dm, lo, qs, cs) == Some([dm |-> dm, lo |-> lo, qs |-> qs, cs |-> cs])
GraphicFrame(uri, relIds) == Some([graphicData |-> Some([uri |-> uri, relIds |-> relIds])])
GraphicFrameWithoutData == Some([graphicData |-> None])

HelloRuns == << Some(<<"H", "e", "l", "l", "o">>), Some(<<" ">>), Some(<<"W", "o", "r", "l", "d">>) >>

AnchorChoices ==
    { Anchor("twoCellAnchor", FromChoices[1], Pic("rId1"), None, None),
      Anchor("oneCellAnchor", FromChoices[2], Pic("rId2"), None, None),
      Anchor("twoCellAnchor", FromChoices[3], Pic("rId3"), None, None),
      Anchor("twoCellAnchor", FromChoices[1], Pic("rId9"), None, None),
      Anchor("oneCellAnchor", FromChoices[3], Pic(""), None, None),
      Anchor("oneCellAnchor", FromChoices[1], PicWithoutBlip, Sp(HelloRuns), None),
      Anchor("twoCellAnchor", FromChoices[2], None, Sp(HelloRuns), None),
      Anchor("oneCellAnchor", FromChoices[1], None, Sp(<< Some(<<" ", "T", "o", "t", "a", "l", " ">>), None >>), None),
      Anchor("twoCellAnchor", FromChoices[3], None, Sp(<< Some(<<" ", " ">>) >>), None),
      Anchor("twoCellAnchor", FromChoices[1], None, SpWithoutBody,
             GraphicFrame(DiagramUri, RelIds("rId4", "", "", ""))),
      Anchor("twoCellAnchor", FromChoices[1], None, None,
             GraphicFrame(DiagramUri, RelIds("rId4", "rId5", "", ""))),
      Anchor("oneCellAnchor", FromChoices[2], None, None,
             GraphicFrame(DiagramUri, RelIds("", "rId5", "rId9", ""))),
      Anchor("twoCellAnchor", FromChoices[1], None, None,
             GraphicFrame(ChartUri, None)),
      Anchor("oneCellAnchor", FromChoices[2], Pic("rId9"), None,
             GraphicFrame(DiagramUri, RelIds("rId4", "", "", ""))),
      Anchor("twoCellAnchor", FromChoices[2], None, Sp(<< Some(<<" ">>) >>),
             GraphicFrame(DiagramUri, RelIds("rId4", "rId5", "", ""))),
      Anchor("oneCellAnchor", FromChoices[3], None, None, None) }

SheetNames == { <<"S", "a", "l", "e", "s">>, <<"Q", "1", " ", "&", " ", "Q", "2">> }

\* The archive around a drawing: the drawing part and its rels file as
\* given (NoPart: not in the archive), and the media parts.
NoPart == [kind |-> "absent"]
Archive(parts) ==
    [n \in {m \in DOMAIN parts : parts[m] # NoPart} |-> parts[n]]
DrawingArchive(drawing, rels) ==
    Archive([n \in {DrawingPath, read_rels_path(DrawingPath), ImagePart, ImagePartNoExt}
              |-> CASE n = DrawingPath -> drawing
                    [] n = read_rels_path(DrawingPath) -> rels
                    [] n = ImagePart -> MediaPart("png bytes")
                    [] OTHER -> MediaPart("other bytes")])

DrawingArchives ==
    { DrawingArchive(d, r) :
        d \in {DrawingPart(a) : a \in SeqsUpTo(AnchorChoices, MaxAnchors)},
        r \in {RelsPart(DrawingRels)} }
    \cup { DrawingArchive(DrawingPart(<<a>>), r) :
             a \in AnchorChoices, r \in {NoPart, MalformedPart} }
    \cup { DrawingArchive(d, RelsPart(DrawingRels)) : d \in {NoPart, MalformedPart} }

NoFiles == [n \in {} |-> ""]

DrawingInit ==
    /\ ex = [pc |-> "start"]
    /\ nrt = Idle
    /\ sa = Idle
    /\ pe = Idle
    /\ rr = Idle
    /\ mn = Idle

\* Lines 183-197, when neither load raises.
LoadDrawing ==
    /\ ex.pc = "start"
    /\ \E zipf \in DrawingArchives, sheet_name \in SheetNames :
         /\ extract_begin(zipf, DrawingPath, sheet_name, NoFiles).pc = "loop"
         /\ ex' = extract_begin(zipf, DrawingPath, sheet_name, NoFiles)
    /\ UNCHANGED notDrawing

\* Lines 187-188, when load_xml raises for the drawing or for its rels.
LoadDrawingRaises ==
    /\ ex.pc = "start"
    /\ \E zipf \in DrawingArchives, sheet_name \in SheetNames :
         /\ extract_begin(zipf, DrawingPath, sheet_name, NoFiles).pc = "raised"
         /\ ex' = extract_begin(zipf, DrawingPath, sheet_name, NoFiles)
    /\ UNCHANGED notDrawing

\* Lines 198-263: the next anchor.
ProcessAnchor ==
    /\ ex.pc = "loop"
    /\ ex.done < Len(ex.anchors)
    /\ ex' = extract_step(ex)
    /\ UNCHANGED notDrawing

\* Line 265.
ReturnItems ==
    /\ ex.pc = "loop"
    /\ ex.done = Len(ex.anchors)
    /\ ex' = [ex EXCEPT !.pc = "returned"]
    /\ UNCHANGED notDrawing

DrawingNext == LoadDrawing \/ LoadDrawingRaises \/ ProcessAnchor \/ ReturnItems

-----------------------------------------------------------------------------
(* build_smartart_hierarchy and extract_images_and_shapes as process_excel *)
(* calls them: run from the call to the return or the exception.           *)

\* The step of the build that comes next in s (s.pc = "build").
build_step(s) ==
    IF s.stack = <<>>
    THEN IF Len(s.nodes) < Len(s.todo)
         THEN call_build_node(s, s.todo[Len(s.nodes) + 1])
         ELSE [s EXCEPT !.pc = "returned"]
    ELSE IF Len(TopFrame(s).children) = Len(child_ids(s)) THEN return_node(s)
    ELSE IF Len(s.stack) < RecursionLimit
         THEN call_build_node(s, child_ids(s)[Len(TopFrame(s).children) + 1])
    ELSE [s EXCEPT !.pc = "raised", !.stack = <<>>, !.nodes = <<>>,
                   !.error = "RecursionError"]

RECURSIVE build_run(_)
build_run(s) ==
    IF s.pc # "build" THEN s ELSE Let(build_step(s), LAMBDA next : build_run(next))

DataModelPart(points, cxns) == [kind |-> "data", points |-> points, cxns |-> cxns]

\* root.findall(".//dgm:pt", NAMESPACES) and root.findall(".//dgm:cxn", NAMESPACES)
point_elements(part) == IF part.kind = "data" THEN part.points ELSE <<>>
cxn_elements(part) == IF part.kind = "data" THEN part.cxns ELSE <<>>

\* Lines 268-312: [raised, nodes].
build_smartart_hierarchy(zipf, data_model_path) ==
    IF load_xml_raises(zipf, data_model_path) THEN [raised |-> TRUE, nodes |-> <<>>]
    ELSE
    LET root == zipf[data_model_path]
    IN  Let(parse_data_model([SaStart EXCEPT !.points = point_elements(root),
                                              !.cxns = cxn_elements(root)]),
            LAMBDA parsed :
                Let(build_run(parsed),
                    LAMBDA s : [raised |-> s.pc = "raised", nodes |-> s.nodes]))

\* Lines 198-265: the loop over the anchors, to the return.
RECURSIVE extract_run(_)
extract_run(e) ==
    IF e.pc # "loop" THEN e
    ELSE IF e.done = Len(e.anchors) THEN [e EXCEPT !.pc = "returned"]
    ELSE Let(extract_step(e), LAMBDA next : extract_run(next))

\* Lines 174-265: the call, from the state of the images directory.
extract_images_and_shapes(zipf, drawing_path, sheet_name, files) ==
    extract_run(extract_begin(zipf, drawing_path, sheet_name, files))

-----------------------------------------------------------------------------
(* parse_workbook_sheets and read_sheet_relationships.                     *)

WorkbookXmlPath == <<"x", "l", "/", "w", "o", "r", "k", "b", "o", "o", "k", ".", "x", "m", "l">>
WorkbookRelsPath == <<"x", "l", "/", "_", "r", "e", "l", "s", "/", "w", "o", "r", "k", "b", "o", "o", "k", ".", "x", "m", "l", ".", "r", "e", "l", "s">>

WorkbookPart(sheets) == [kind |-> "workbook", sheets |-> sheets]
SheetElem(name, rid) == [name |-> name, rid |-> rid]

\* workbook_root.findall(".//s:sheet", NAMESPACES)
sheet_elements(part) == IF part.kind = "workbook" THEN part.sheets ELSE <<>>

\* Lines 73-80: rid_to_target, from the relationships whose type ends with
\* /worksheet, as the items of the dict.
rid_to_target(rel_elems) ==
    LET worksheet_rels == SelectSeq(rel_elems, LAMBDA rel : EndsWith(rel.Type, <<"/", "w", "o", "r", "k", "s", "h", "e", "e", "t">>))
    IN  rels_from([i \in 1..Len(worksheet_rels) |->
            Relationship(worksheet_rels[i].Id, worksheet_rels[i].Type,
                         normalize_rel_target(<<"x", "l">>, worksheet_rels[i].Target))])

SheetRef(name, part) == [name |-> name, part |-> part]

\* Line 84: sheet.attrib.get("name", "Sheet")
sheet_name_of(sheet) == IF sheet.name = None THEN <<"S", "h", "e", "e", "t">> ELSE Get(sheet.name)

\* The sheets listed relationship by relationship, not sheet by sheet.
parse_workbook_sheets_in_rels_order(zipf) ==
    IF load_xml_raises(zipf, WorkbookXmlPath) \/ load_xml_raises(zipf, WorkbookRelsPath)
    THEN [raised |-> TRUE, sheets |-> <<>>]
    ELSE
    LET targets == rid_to_target(relationship_elements(zipf[WorkbookRelsPath]))
        elems == sheet_elements(zipf[WorkbookXmlPath])
        F[i \in 0..Len(targets)] ==
            IF i = 0 THEN <<>>
            ELSE LET of_rel == SelectSeq(elems, LAMBDA sheet : sheet.rid = targets[i].Id)
                 IN  F[i-1] \o [k \in 1..Len(of_rel) |->
                                  SheetRef(sheet_name_of(of_rel[k]),
                                           posixpath_normpath(targets[i].Target))]
    IN  [raised |-> FALSE, sheets |-> F[Len(targets)]]

\* parse_workbook_sheets with rid_to_target[rid] in place of the test of
\* line 86: a sheet whose r:id is given but is not in rid_to_target raises.
parse_workbook_sheets_strict(zipf) ==
    IF load_xml_raises(zipf, WorkbookXmlPath) \/ load_xml_raises(zipf, WorkbookRelsPath)
    THEN [raised |-> TRUE, sheets |-> <<>>]
    ELSE
    LET targets == rid_to_target(relationship_elements(zipf[WorkbookRelsPath]))
        elems == sheet_elements(zipf[WorkbookXmlPath])
        listed == SelectSeq(elems, LAMBDA sheet : sheet.rid # "" /\ rels_has(targets, sheet.rid))
    IN  IF \E i \in 1..Len(elems) : elems[i].rid # "" /\ ~rels_has(targets, elems[i].rid)
        THEN [raised |-> TRUE, sheets |-> <<>>]
        ELSE [raised |-> FALSE,
              sheets |-> [i \in 1..Len(listed) |->
                            SheetRef(sheet_name_of(listed[i]),
                                     posixpath_normpath(rels_target(targets, listed[i].rid)))]]

\* Lines 63-91: [raised, sheets], the sheets as (name, sheet_path) in the
\* order of the sheet elements, those without a resolving r:id left out.
parse_workbook_sheets(zipf) ==
    IF load_xml_raises(zipf, WorkbookXmlPath) \/ load_xml_raises(zipf, WorkbookRelsPath)
    THEN [raised |-> TRUE, sheets |-> <<>>]
    ELSE
    LET targets == rid_to_target(relationship_elements(zipf[WorkbookRelsPath]))
        listed == SelectSeq(sheet_elements(zipf[WorkbookXmlPath]),
                            LAMBDA sheet : sheet.rid # "" /\ rels_has(targets, sheet.rid))
    IN  [raised |-> FALSE,
         sheets |-> [i \in 1..Len(listed) |->
                        SheetRef(sheet_name_of(listed[i]),
                                 posixpath_normpath(rels_target(targets, listed[i].rid)))]]

\* str.replace(old, new): the occurrences of old, left to right, not
\* overlapping.
RECURSIVE str_replace(_, _, _)
str_replace(s, old, new) ==
    IF s = <<>> THEN <<>>
    ELSE IF StartsWith(s, old) THEN new \o str_replace(SubSeq(s, Len(old) + 1, Len(s)), old, new)
    ELSE <<Head(s)>> \o str_replace(Tail(s), old, new)

\* Lines 96-98.
sheet_rels_path(sheet_path) ==
    posixpath_join(str_replace(posixpath_dirname(sheet_path),
                               <<"x", "l", "/", "w", "o", "r", "k", "s", "h", "e", "e", "t", "s">>, <<"x", "l", "/", "w", "o", "r", "k", "s", "h", "e", "e", "t", "s", "/", "_", "r", "e", "l", "s">>),
                   posixpath_basename(sheet_path) \o <<".", "r", "e", "l", "s">>)

\* Lines 94-107: [raised, rels].
read_sheet_relationships(zipf, sheet_path) ==
    LET rels_path == sheet_rels_path(sheet_path)
    IN  IF rels_path \notin DOMAIN zipf THEN [raised |-> FALSE, rels |-> <<>>]
        ELSE IF load_xml_raises(zipf, rels_path) THEN [raised |-> TRUE, rels |-> <<>>]
        ELSE [raised |-> FALSE, rels |-> rels_from(relationship_elements(zipf[rels_path]))]

-----------------------------------------------------------------------------
(* process_excel.  pe holds the archive, the sheets to go through and how  *)
(* many are done, the result so far and the entry of the sheet in hand,    *)
(* and the files of the images directory.                                  *)

\* No sheet at all in place of the mapping of line 433.
NoFallbackSheets == <<>>

\* Line 433: the mapping used when parse_workbook_sheets raises.
FallbackSheets == << SheetRef(<<"S", "h", "e", "e", "t", "1">>, <<"x", "l", "/", "w", "o", "r", "k", "s", "h", "e", "e", "t", "s", "/", "s", "h", "e", "e", "t", "1", ".", "x", "m", "l">>) >>

\* cells_by_sheet.get(sheet_name, [])
cells_get(cells_by_sheet, sheet_name) ==
    IF sheet_name \in DOMAIN cells_by_sheet THEN cells_by_sheet[sheet_name] ELSE <<>>

\* Lines 438-448.
SheetEntry(sheet_name, sheet_part, text_content) ==
    [name |-> sheet_name, text_content |-> text_content,
     images |-> <<>>, shapes_text |-> <<>>, smartart |-> <<>>,
     structure |-> [sheet_part |-> sheet_part, hierarchy |-> <<>>]]

\* Lines 407-435: the result as it is when the loop over the sheets starts
\* (metadata.created, the time of the run, is left out).
process_begin(zipf, cells_by_sheet, filename, files) ==
    LET parsed == parse_workbook_sheets(zipf)
        sheets == IF parsed.raised THEN FallbackSheets ELSE parsed.sheets
    IN  [pc |-> "sheets", zipf |-> zipf, cells_by_sheet |-> cells_by_sheet,
         fallback |-> parsed.raised, sheets |-> sheets, done |-> 0,
         result |-> [text_content |-> <<>>, images |-> <<>>, smartart |-> <<>>,
                     links |-> <<>>,
                     metadata |-> [filename |-> filename,
                                   sheets |-> [i \in 1..Len(sheets) |-> sheets[i].name]],
                     sheets |-> <<>>],
         sheet_entry |-> <<>>, files |-> files, error |-> "none"]

\* The loop over the references without the try of line 472: a build that
\* raises leaves process_excel.
add_smartart_uncaught(p, smartart_refs, i) ==
    IF \E j \in 1..Len(smartart_refs) :
          build_smartart_hierarchy(p.zipf, smartart_refs[j].path).raised
    THEN [p EXCEPT !.pc = "raised", !.error = "Exception"]
    ELSE p

\* Lines 471-486: the data models of the references, one after the other;
\* a model whose build raises adds nothing.
RECURSIVE add_smartart(_, _, _)
add_smartart(p, smartart_refs, i) ==
    IF i > Len(smartart_refs) THEN p
    ELSE
    Let(build_smartart_hierarchy(p.zipf, smartart_refs[i].path), LAMBDA built :
        IF built.raised THEN add_smartart(p, smartart_refs, i + 1)
        ELSE Let([p EXCEPT !.sheet_entry.smartart = @ \o built.nodes,
                           !.result.smartart = @ \o built.nodes],
                 LAMBDA q : add_smartart(q, smartart_refs, i + 1)))

\* Line 454-455: the drawing part a relationship of the sheet points to.
drawing_part_of(sheet_part, rel) ==
    posixpath_normpath(
        str_replace(normalize_rel_target(posixpath_dirname(sheet_part), rel.Target),
                    <<"w", "o", "r", "k", "s", "h", "e", "e", "t", "s", "/", ".", ".", "/">>, <<"x", "l", "/">>))

\* process_rel with the images and the forests stored in the entry of the
\* sheet alone.
process_rel_entry_only(p, sheet, rel) ==
    IF ~EndsWith(rel.Type, <<"/", "d", "r", "a", "w", "i", "n", "g">>) THEN p
    ELSE
    LET drawing_part == drawing_part_of(sheet.part, rel)
    IN  IF drawing_part \notin DOMAIN p.zipf THEN p
        ELSE
        Let(extract_images_and_shapes(p.zipf, drawing_part, sheet.name, p.files),
            LAMBDA e :
            IF e.pc = "raised"
            THEN [p EXCEPT !.pc = "raised", !.error = "ParseError", !.files = e.files]
            ELSE Let([p EXCEPT !.sheet_entry.images = @ \o e.images,
                               !.sheet_entry.shapes_text = @ \o e.shapes,
                               !.files = e.files],
                     LAMBDA q :
                         Let(add_smartart(q, e.smartart_refs, 1), LAMBDA r :
                             [r EXCEPT !.result.smartart = q.result.smartart])))

\* Lines 453-486: one relationship of the sheet.  An exception raised by
\* extract_images_and_shapes leaves process_excel.
process_rel(p, sheet, rel) ==
    IF ~EndsWith(rel.Type, <<"/", "d", "r", "a", "w", "i", "n", "g">>) THEN p
    ELSE
    LET drawing_part == drawing_part_of(sheet.part, rel)
    IN  IF drawing_part \notin DOMAIN p.zipf THEN p
        ELSE
        Let(extract_images_and_shapes(p.zipf, drawing_part, sheet.name, p.files),
            LAMBDA e :
            IF e.pc = "raised"
            THEN [p EXCEPT !.pc = "raised", !.error = "ParseError", !.files = e.files]
            ELSE Let([p EXCEPT !.sheet_entry.images = @ \o e.images,
                               !.result.images = @ \o e.images,
                               !.sheet_entry.shapes_text = @ \o e.shapes,
                               !.files = e.files],
                     LAMBDA q : add_smartart(q, e.smartart_refs, 1)))

\* Line 452: the loop over s_rels.items().
RECURSIVE process_rels(_, _, _, _)
process_rels(p, sheet, s_rels, i) ==
    IF i > Len(s_rels) \/ p.pc = "raised" THEN p
    ELSE Let(process_rel(p, sheet, s_rels[i]),
             LAMBDA q : process_rels(q, sheet, s_rels, i + 1))

\* Lines 437-488: the body of the loop for the next sheet.
process_sheet(p) ==
    LET sheet == p.sheets[p.done + 1]
        started == [p EXCEPT !.sheet_entry =
                       SheetEntry(sheet.name, sheet.part,
                                  cells_get(p.cells_by_sheet, sheet.name))]
    IN  Let(read_sheet_relationships(p.zipf, sheet.part), LAMBDA s_rels :
        IF s_rels.raised THEN [started EXCEPT !.pc = "raised", !.error = "ParseError"]
        ELSE Let(process_rels(started, sheet, s_rels.rels, 1), LAMBDA q :
                 IF q.pc = "raised" THEN q
                 ELSE [q EXCEPT !.result.sheets = Append(@, q.sheet_entry),
                                !.done = @ + 1]))

-----------------------------------------------------------------------------
(* The packages process_excel is run on: a workbook of up to MaxSheets     *)
(* sheet elements, its relationships, and two worksheets with what hangs   *)
(* on them.                                                                *)

WorksheetType == <<"h", "t", "t", "p", ":", "/", "/", "s", "c", "h", "e", "m", "a", "s", ".", "o", "p", "e", "n", "x", "m", "l", "f", "o", "r", "m", "a", "t", "s", ".", "o", "r", "g", "/", "o", "f", "f", "i", "c", "e", "D", "o", "c", "u", "m", "e", "n", "t", "/", "2", "0", "0", "6", "/", "r", "e", "l", "a", "t", "i", "o", "n", "s", "h", "i", "p", "s", "/", "w", "o", "r", "k", "s", "h", "e", "e", "t">>
ChartsheetType == <<"h", "t", "t", "p", ":", "/", "/", "s", "c", "h", "e", "m", "a", "s", ".", "o", "p", "e", "n", "x", "m", "l", "f", "o", "r", "m", "a", "t", "s", ".", "o", "r", "g", "/", "o", "f", "f", "i", "c", "e", "D", "o", "c", "u", "m", "e", "n", "t", "/", "2", "0", "0", "6", "/", "r", "e", "l", "a", "t", "i", "o", "n", "s", "h", "i", "p", "s", "/", "c", "h", "a", "r", "t", "s", "h", "e", "e", "t">>
StylesType == <<"h", "t", "t", "p", ":", "/", "/", "s", "c", "h", "e", "m", "a", "s", ".", "o", "p", "e", "n", "x", "m", "l", "f", "o", "r", "m", "a", "t", "s", ".", "o", "r", "g", "/", "o", "f", "f", "i", "c", "e", "D", "o", "c", "u", "m", "e", "n", "t", "/", "2", "0", "0", "6", "/", "r", "e", "l", "a", "t", "i", "o", "n", "s", "h", "i", "p", "s", "/", "s", "t", "y", "l", "e", "s">>
DrawingType == <<"h", "t", "t", "p", ":", "/", "/", "s", "c", "h", "e", "m", "a", "s", ".", "o", "p", "e", "n", "x", "m", "l", "f", "o", "r", "m", "a", "t", "s", ".", "o", "r", "g", "/", "o", "f", "f", "i", "c", "e", "D", "o", "c", "u", "m", "e", "n", "t", "/", "2", "0", "0", "6", "/", "r", "e", "l", "a", "t", "i", "o", "n", "s", "h", "i", "p", "s", "/", "d", "r", "a", "w", "i", "n", "g">>
HyperlinkType == <<"h", "t", "t", "p", ":", "/", "/", "s", "c", "h", "e", "m", "a", "s", ".", "o", "p", "e", "n", "x", "m", "l", "f", "o", "r", "m", "a", "t", "s", ".", "o", "r", "g", "/", "o", "f", "f", "i", "c", "e", "D", "o", "c", "u", "m", "e", "n", "t", "/", "2", "0", "0", "6", "/", "r", "e", "l", "a", "t", "i", "o", "n", "s", "h", "i", "p", "s", "/", "h", "y", "p", "e", "r", "l", "i", "n", "k">>

\* The Relationship elements of xl/_rels/workbook.xml.rels: the order of
\* the elements, of their ids and of the part names all differ.
WorkbookRels ==
    << Relationship("rId3", WorksheetType, <<"/", "x", "l", "/", "w", "o", "r", "k", "s", "h", "e", "e", "t", "s", "/", "s", "h", "e", "e", "t", "3", ".", "x", "m", "l">>),
       Relationship("rId5", StylesType, <<"s", "t", "y", "l", "e", "s", ".", "x", "m", "l">>),
       Relationship("rId2", WorksheetType, <<"w", "o", "r", "k", "s", "h", "e", "e", "t", "s", "/", "s", "h", "e", "e", "t", "1", ".", "x", "m", "l">>),
       Relationship("rId1", WorksheetType, <<"w", "o", "r", "k", "s", "h", "e", "e", "t", "s", "/", "s", "h", "e", "e", "t", "2", ".", "x", "m", "l">>),
       Relationship("rId4", ChartsheetType, <<"c", "h", "a", "r", "t", "s", "h", "e", "e", "t", "s", "/", "s", "h", "e", "e", "t", "1", ".", "x", "m", "l">>) >>

SheetChoices ==
    { SheetElem(Some(<<"S", "u", "m", "m", "a", "r", "y">>), "rId2"),
      SheetElem(Some(<<"D", "a", "t", "a">>), "rId1"),
      SheetElem(Some(<<"A", "r", "c", "h", "i", "v", "e">>), "rId3"),
      SheetElem(Some(<<"C", "h", "a", "r", "t", "1">>), "rId4"),
      SheetElem(None, "rId1"),
      SheetElem(Some(<<"O", "r", "p", "h", "a", "n">>), ""),
      SheetElem(Some(<<"G", "h", "o", "s", "t">>), "rId9") }

WorkbookChoices ==
    {WorkbookPart(sheets) : sheets \in SeqsUpTo(SheetChoices, MaxSheets)}
        \cup {MalformedPart, NoPart}

Sheet1Path == <<"x", "l", "/", "w", "o", "r", "k", "s", "h", "e", "e", "t", "s", "/", "s", "h", "e", "e", "t", "1", ".", "x", "m", "l">>
Sheet2Path == <<"x", "l", "/", "w", "o", "r", "k", "s", "h", "e", "e", "t", "s", "/", "s", "h", "e", "e", "t", "2", ".", "x", "m", "l">>
Drawing2Path == <<"x", "l", "/", "d", "r", "a", "w", "i", "n", "g", "s", "/", "d", "r", "a", "w", "i", "n", "g", "2", ".", "x", "m", "l">>

Sheet1Rels ==
    << Relationship("rId1", DrawingType, <<".", ".", "/", "d", "r", "a", "w", "i", "n", "g", "s", "/", "d", "r", "a", "w", "i", "n", "g", "1", ".", "x", "m", "l">>),
       Relationship("rId2", HyperlinkType, <<"h", "t", "t", "p", "s", ":", "/", "/", "e", "x", "a", "m", "p", "l", "e", ".", "c", "o", "m", "/">>) >>
Sheet2Rels == << Relationship("rId1", DrawingType, <<".", ".", "/", "d", "r", "a", "w", "i", "n", "g", "s", "/", "d", "r", "a", "w", "i", "n", "g", "2", ".", "x", "m", "l">>) >>

\* A second drawing that sheet1.xml may point to.
Drawing3Path == <<"x", "l", "/", "d", "r", "a", "w", "i", "n", "g", "s", "/", "d", "r", "a", "w", "i", "n", "g", "3", ".", "x", "m", "l">>
Sheet1RelsTwoDrawings ==
    Sheet1Rels \o << Relationship("rId3", DrawingType, <<".", ".", "/", "d", "r", "a", "w", "i", "n", "g", "s", "/", "d", "r", "a", "w", "i", "n", "g", "3", ".", "x", "m", "l">>) >>
Drawing3Anchors ==
    << Anchor("twoCellAnchor", FromChoices[3], Pic("rId1"), None, None) >>

Drawing1Anchors ==
    << Anchor("oneCellAnchor", FromChoices[2], None, Sp(HelloRuns), None),
       Anchor("twoCellAnchor", FromChoices[1], Pic("rId1"), None, None),
       Anchor("twoCellAnchor", FromChoices[1], None, None,
              GraphicFrame(DiagramUri, RelIds("rId4", "rId5", "", ""))),
       Anchor("twoCellAnchor", FromChoices[3], None, None,
              GraphicFrame(DiagramUri, RelIds("rId6", "", "", ""))) >>
Drawing2Anchors ==
    << Anchor("twoCellAnchor", FromChoices[3], None, Sp(<< Some(<<" ", "T", "o", "t", "a", "l", " ">>) >>), None) >>

\* drawing2.xml with a picture, and then with relationships.
Drawing2AnchorsWithImage ==
    Drawing2Anchors \o << Anchor("oneCellAnchor", FromChoices[1], Pic("rId1"), None, None) >>

GoodDataModel ==
    DataModelPart(<< [modelId |-> "A", runs |-> << <<"A">> >>, name |-> NoName],
                     [modelId |-> "B", runs |-> << <<" ">> >>, name |-> <<"b">>] >>,
                  << [srcId |-> "A", destId |-> "B"] >>)
CyclicDataModel ==
    DataModelPart(<< [modelId |-> "A", runs |-> << <<"A">> >>, name |-> NoName] >>,
                  << [srcId |-> "A", destId |-> "A"] >>)

\* A second data model, which the fourth anchor of drawing1.xml refers to.
DataModel2Path == <<"x", "l", "/", "d", "i", "a", "g", "r", "a", "m", "s", "/", "d", "a", "t", "a", "2", ".", "x", "m", "l">>
DataModel2 ==
    DataModelPart(<< [modelId |-> "C", runs |-> << <<"C">> >>, name |-> NoName] >>, <<>>)

\* What hangs on sheet1.xml.
Sheet1Cases ==
    { "no_rels", "rels_malformed", "drawing_ok", "drawing_malformed",
      "drawing_rels_malformed", "drawing_missing", "diagram_malformed",
      "diagram_cyclic", "diagram_missing", "two_drawings",
      "drawing_rels_missing" }
\* What hangs on sheet2.xml.
Sheet2Cases == { "no_rels", "drawing_ok", "drawing_malformed", "drawing_with_image" }

Package(workbook, workbook_rels, case1, case2) ==
    Archive([n \in { WorkbookXmlPath, WorkbookRelsPath, Sheet1Path, Sheet2Path,
                     sheet_rels_path(Sheet1Path), sheet_rels_path(Sheet2Path),
                     DrawingPath, read_rels_path(DrawingPath), Drawing2Path,
                     read_rels_path(Drawing2Path),
                     Drawing3Path, read_rels_path(Drawing3Path),
                     DataModelPath, DataModel2Path, LayoutPath, ImagePart }
        |-> CASE n = WorkbookXmlPath -> workbook
              [] n = WorkbookRelsPath -> workbook_rels
              [] n \in {Sheet1Path, Sheet2Path} -> [kind |-> "sheet"]
              [] n = sheet_rels_path(Sheet1Path) ->
                    CASE case1 = "no_rels" -> NoPart
                      [] case1 = "rels_malformed" -> MalformedPart
                      [] case1 = "two_drawings" -> RelsPart(Sheet1RelsTwoDrawings)
                      [] OTHER -> RelsPart(Sheet1Rels)
              [] n = sheet_rels_path(Sheet2Path) ->
                    IF case2 = "no_rels" THEN NoPart ELSE RelsPart(Sheet2Rels)
              [] n = DrawingPath ->
                    CASE case1 = "drawing_malformed" -> MalformedPart
                      [] case1 = "drawing_missing" -> NoPart
                      [] OTHER -> DrawingPart(Drawing1Anchors)
              [] n = read_rels_path(DrawingPath) ->
                    CASE case1 = "drawing_rels_malformed" -> MalformedPart
                      [] case1 = "drawing_rels_missing" -> NoPart
                      [] OTHER -> RelsPart(DrawingRels)
              [] n = Drawing2Path ->
                    CASE case2 = "drawing_malformed" -> MalformedPart
                      [] case2 = "drawing_with_image" -> DrawingPart(Drawing2AnchorsWithImage)
                      [] OTHER -> DrawingPart(Drawing2Anchors)
              [] n = read_rels_path(Drawing2Path) ->
                    IF case2 = "drawing_with_image" THEN RelsPart(DrawingRels) ELSE NoPart
              [] n = Drawing3Path -> DrawingPart(Drawing3Anchors)
              [] n = read_rels_path(Drawing3Path) -> RelsPart(DrawingRels)
              [] n = DataModelPath ->
                    CASE case1 = "diagram_malformed" -> MalformedPart
                      [] case1 = "diagram_cyclic" -> CyclicDataModel
                      [] case1 = "diagram_missing" -> NoPart
                      [] OTHER -> GoodDataModel
              [] n = DataModel2Path -> DataModel2
              [] n = LayoutPath -> [kind |-> "layout"]
              [] OTHER -> MediaPart("png bytes")])

\* Every workbook with the relationships in place; one workbook with the
\* relationships malformed or missing.
Packages ==
    { Package(workbook, RelsPart(WorkbookRels), case1, case2) :
        workbook \in WorkbookChoices, case1 \in Sheet1Cases, case2 \in Sheet2Cases }
    \cup
    { Package(WorkbookPart(<< SheetElem(Some(<<"D", "a", "t", "a">>), "rId1"),
                              SheetElem(Some(<<"S", "u", "m", "m", "a", "r", "y">>), "rId2") >>),
              workbook_rels, case1, "no_rels") :
        workbook_rels \in {MalformedPart, NoPart}, case1 \in Sheet1Cases }

\* What the cell-value reader gives for the workbook.
CellsBySheet ==
    [sheet_name \in { <<"D", "a", "t", "a">> } |-> << [cell |-> "A1", text |-> "x"] >>]

InputFilename == "book.xlsx"

ProcessInit ==
    /\ pe = [pc |-> "start"]
    /\ nrt = Idle
    /\ sa = Idle
    /\ ex = Idle
    /\ rr = Idle
    /\ mn = Idle

\* Lines 407-435, when parse_workbook_sheets returns the sheets.
ParseWorkbook ==
    /\ pe.pc = "start"
    /\ \E zipf \in Packages :
         /\ ~parse_workbook_sheets(zipf).raised
         /\ pe' = process_begin(zipf, CellsBySheet, InputFilename, NoFiles)
    /\ UNCHANGED notProcess

\* Lines 407-435, when parse_workbook_sheets raises: the default mapping.
ParseWorkbookFallback ==
    /\ pe.pc = "start"
    /\ \E zipf \in Packages :
         /\ parse_workbook_sheets(zipf).raised
         /\ pe' = process_begin(zipf, CellsBySheet, InputFilename, NoFiles)
    /\ UNCHANGED notProcess

\* Lines 437-488: the next sheet, its entry appended to the result.
ProcessSheet ==
    /\ pe.pc = "sheets"
    /\ pe.done < Len(pe.sheets)
    /\ process_sheet(pe).pc # "raised"
    /\ pe' = process_sheet(pe)
    /\ UNCHANGED notProcess

\* Lines 451 and 457: the relationships of the sheet, or the drawing or its
\* relationships, are not well-formed; the exception leaves process_excel.
ProcessSheetRaises ==
    /\ pe.pc = "sheets"
    /\ pe.done < Len(pe.sheets)
    /\ process_sheet(pe).pc = "raised"
    /\ pe' = process_sheet(pe)
    /\ UNCHANGED notProcess

\* Line 490.
ReturnResult ==
    /\ pe.pc = "sheets"
    /\ pe.done = Len(pe.sheets)
    /\ pe' = [pe EXCEPT !.pc = "returned"]
    /\ UNCHANGED notProcess

ProcessNext ==
    \/ ParseWorkbook
    \/ ParseWorkbookFallback
    \/ ProcessSheet
    \/ ProcessSheetRaises
    \/ ReturnResult

-----------------------------------------------------------------------------
(* generate_markdown.  The document is the sequence of its lines, a line a *)
(* sequence of characters (a cell address or a node id is one element).    *)

AlphabetLower ==
    <<"a", "b", "c", "d", "e", "f", "g", "h", "i", "j", "k", "l", "m",
      "n", "o", "p", "q", "r", "s", "t", "u", "v", "w", "x", "y", "z">>
AlphabetUpper ==
    <<"A", "B", "C", "D", "E", "F", "G", "H", "I", "J", "K", "L", "M",
      "N", "O", "P", "Q", "R", "S", "T", "U", "V", "W", "X", "Y", "Z">>

\* str.lower()
str_lower(s) ==
    [i \in 1..Len(s) |->
        IF s[i] \in UpperChars
        THEN AlphabetLower[CHOOSE k \in 1..Len(AlphabetUpper) : AlphabetUpper[k] = s[i]]
        ELSE s[i]]

\* The characters of the class [a-z0-9].
IsAnchorChar(c) == c \in LowerChars \/ IsDigit(c)

\* re.sub(r"[^a-z0-9]+", "-", s)
sub_hyphen(s) ==
    LET F[i \in 0..Len(s)] ==
            IF i = 0 THEN <<>>
            ELSE IF IsAnchorChar(s[i]) THEN Append(F[i-1], s[i])
            ELSE IF i > 1 /\ ~IsAnchorChar(s[i-1]) THEN F[i-1]
            ELSE Append(F[i-1], "-")
    IN  F[Len(s)]

\* s.strip("-")
RECURSIVE strip_hyphens(_)
strip_hyphens(s) ==
    IF s # <<>> /\ Head(s) = "-" THEN strip_hyphens(Tail(s))
    ELSE IF s # <<>> /\ s[Len(s)] = "-" THEN strip_hyphens(SubSeq(s, 1, Len(s) - 1))
    ELSE s

\* The anchor with one hyphen for each character outside [a-z0-9].
toc_anchor_uncollapsed(sheet_name) ==
    strip_hyphens([i \in 1..Len(sheet_name) |->
                      IF IsAnchorChar(str_lower(sheet_name)[i])
                      THEN str_lower(sheet_name)[i] ELSE "-"])

\* Line 350: re.sub(r"[^a-z0-9]+", "-", sheet_name.lower()).strip("-")
toc_anchor(sheet_name) == strip_hyphens(sub_hyphen(str_lower(sheet_name)))

\* str(n)
python_str(n) == IF n < 0 THEN <<"-">> \o int_to_str(0 - n) ELSE int_to_str(n)

\* The clock counts ticks, TicksPerSecond of them in a second.
TicksPerSecond == 2
two_digits(n) == IF n < 10 THEN <<"0">> \o int_to_str(n) ELSE int_to_str(n)

\* datetime.now().strftime('%Y-%m-%d %H:%M:%S'): the time to the second.
strftime(now) == <<"2", "0", "2", "6", "-", "0", "1", "-", "0", "1", " ", "0", "0", ":", "0", "0", ":">> \o two_digits(now \div TicksPerSecond)

\* datetime.now().isoformat(): the time with its fraction of a second,
\* which is left out when it is zero.
isoformat(now) ==
    <<"2", "0", "2", "6", "-", "0", "1", "-", "0", "1", "T", "0", "0", ":", "0", "0", ":">> \o two_digits(now \div TicksPerSecond)
        \o (IF now % TicksPerSecond = 0 THEN <<>>
            ELSE <<".">> \o int_to_str(((now % TicksPerSecond) * 1000000) \div TicksPerSecond))

\* The concatenation of a sequence of sequences.
Flatten(seqs) ==
    LET F[i \in 0..Len(seqs)] == IF i = 0 THEN <<>> ELSE F[i-1] \o seqs[i]
    IN  F[Len(seqs)]

\* Line 351: the entry of a sheet in the table of contents.
toc_line(sheet) ==
    <<"-", " ", "[">> \o sheet.name \o <<"]", "(", "#">> \o toc_anchor(sheet.name) \o <<")">>

\* Lines 390-396: the outline of a forest, two spaces deeper per level.
RECURSIVE walk(_, _)
walk(nodes, depth) ==
    Flatten([i \in 1..Len(nodes) |->
        << Flatten([d \in 1..depth |-> <<" ", " ">>]) \o <<"-", " ">>
             \o (IF str_strip(nodes[i].text) # <<>> THEN str_strip(nodes[i].text)
                 ELSE <<"(", "i", "d", ":", " ">> \o <<nodes[i].id>> \o <<")">>) >>
          \o walk(nodes[i].children, depth + 1)])

\* Lines 354-400: the section of a sheet.
sheet_lines(sheet) ==
    << <<"#", "#", " ">> \o sheet.name >>
    \o (IF sheet.text_content = <<>> THEN <<>>
        ELSE << <<>>, <<"#", "#", "#", " ", "C", "e", "l", "l", " ", "T", "e", "x", "t">> >>
             \o [i \in 1..Len(sheet.text_content) |->
                   <<"-", " ">> \o <<sheet.text_content[i].cell>> \o <<":", " ">>
                         \o <<sheet.text_content[i].text>>])
    \o (IF sheet.shapes_text = <<>> THEN <<>>
        ELSE << <<>>, <<"#", "#", "#", " ", "S", "h", "a", "p", "e", "s", " ", "T", "e", "x", "t">> >>
             \o [i \in 1..Len(sheet.shapes_text) |->
                   <<"-", " ", "(", "r">> \o python_str(sheet.shapes_text[i].anchor.row)
                     \o <<",", " ", "c">> \o python_str(sheet.shapes_text[i].anchor.col)
                     \o <<")", ":", " ">> \o sheet.shapes_text[i].text])
    \o (IF sheet.images = <<>> THEN <<>>
        ELSE << <<>>, <<"#", "#", "#", " ", "I", "m", "a", "g", "e", "s">> >>
             \o [i \in 1..Len(sheet.images) |->
                   <<"!", "[", "I", "m", "a", "g", "e", " ", "a", "t", " ", "r">> \o python_str(sheet.images[i].anchor.row)
                     \o <<" ", "c">> \o python_str(sheet.images[i].anchor.col)
                     \o <<"]", "(">> \o sheet.images[i].image_filename \o <<")">>])
    \o (IF sheet.smartart = <<>> THEN <<>>
        ELSE << <<>>, <<"#", "#", "#", " ", "S", "m", "a", "r", "t", "A", "r", "t">> >> \o walk(sheet.smartart, 0))
    \o << <<>> >>

\* Line 404: "\n".join(lines).rstrip(): the empty lines at the end go, and
\* the blanks at the end of the last line.
RECURSIVE rstrip_lines(_)
rstrip_lines(lines) ==
    IF lines = <<>> THEN <<>>
    ELSE IF str_rstrip(lines[Len(lines)]) = <<>> THEN rstrip_lines(SubSeq(lines, 1, Len(lines) - 1))
    ELSE SubSeq(lines, 1, Len(lines) - 1) \o << str_rstrip(lines[Len(lines)]) >>

\* Lines 341-404: the lines of the Markdown document, with the time now.
generate_markdown(output_json, now) ==
    rstrip_lines(
        << <<"#", " ", "E", "x", "c", "e", "l", " ", "t", "o", " ", "M", "a", "r", "k", "d", "o", "w", "n", " ", "C", "o", "n", "v", "e", "r", "s", "i", "o", "n">>,
           <<"G", "e", "n", "e", "r", "a", "t", "e", "d", " ", "o", "n", ":", " ">> \o strftime(now),
           <<>>,
           <<"#", "#", " ", "T", "a", "b", "l", "e", " ", "o", "f", " ", "C", "o", "n", "t", "e", "n", "t", "s">> >>
        \o [i \in 1..Len(output_json.sheets) |-> toc_line(output_json.sheets[i])]
        \o << <<>> >>
        \o Flatten([i \in 1..Len(output_json.sheets) |-> sheet_lines(output_json.sheets[i])]))

-----------------------------------------------------------------------------
(* main.  The input path names no file, a file that is no zip archive, or  *)
(* a package; the output directory is there or not.  mn.fs is the output   *)
(* directory: whether it and its images directory exist, the files of the  *)
(* images directory, extracted_data.json and converted.md.                 *)

\* Lines 437-490: the sheets one after the other, to the return or to the
\* exception that leaves process_excel.
RECURSIVE process_run(_)
process_run(p) ==
    IF p.pc # "sheets" THEN p
    ELSE IF p.done = Len(p.sheets) THEN [p EXCEPT !.pc = "returned"]
    ELSE Let(process_sheet(p), LAMBDA q : process_run(q))

\* Lines 406-490: the call, from the state of the images directory.
process_excel(zipf, cells_by_sheet, filename, files) ==
    process_run(process_begin(zipf, cells_by_sheet, filename, files))

\* Lines 412-422: the result with metadata.created, the time of line 419.
with_created(result, now) ==
    [result EXCEPT !.metadata = [filename |-> result.metadata.filename,
                                 created |-> isoformat(now),
                                 sheets |-> result.metadata.sheets]]

\* Line 511: json.dump(data, f, ensure_ascii=False, indent=2).  The text is
\* fixed by the values of the dict and the order of its keys, which is the
\* order in which the code inserts them; the file is held as that dict.
json_dump(data) == [format |-> "json", indent |-> 2, value |-> data]

\* Lines 407-409: ensure_dir(output_dir) and ensure_dir(images_dir).
ensure_dirs(fs) == [fs EXCEPT !.output_dir = TRUE, !.images_dir = TRUE]

\* How a run ended: main returned a code, or an exception left it.
Returned(code) == [outcome |-> "returned", code |-> code]
Escaped(error) == [outcome |-> "exception", error |-> error]

\* main with the directories made before the input is looked at.
input_not_found_after_ensure_dir(m) ==
    [m EXCEPT !.pc = "exited",
              !.fs = ensure_dirs(@),
              !.stderr = Append(@, <<"I", "n", "p", "u", "t", " ", "f", "i", "l", "e", " ", "n", "o", "t", " ", "f", "o", "u", "n", "d", ":", " ">> \o <<m.input.path>>),
              !.runs = Append(@, Returned(2))]

\* Lines 503-505: the message on standard error and the return of 2.
input_not_found(m) ==
    [m EXCEPT !.pc = "exited",
              !.stderr = Append(@, <<"I", "n", "p", "u", "t", " ", "f", "i", "l", "e", " ", "n", "o", "t", " ", "f", "o", "u", "n", "d", ":", " ">> \o <<m.input.path>>),
              !.runs = Append(@, Returned(2))]

\* Line 507: data = process_excel(input_path, output_dir) on a package; the
\* data, or the exception, which nothing in main catches.
main_process(m) ==
    Let(process_excel(m.input.zipf, CellsBySheet, InputFilename, m.fs.images), LAMBDA p :
        IF p.pc = "returned"
        THEN [m EXCEPT !.pc = "processed",
                       !.fs = [ensure_dirs(@) EXCEPT !.images = p.files],
                       !.data = Some(with_created(p.result, m.clock))]
        ELSE [m EXCEPT !.pc = "exited",
                       !.fs = [ensure_dirs(@) EXCEPT !.images = p.files],
                       !.runs = Append(@, Escaped(p.error))])

\* The sheet names of the workbooks main is run on.
TocNames ==
    { <<"Q", "1", " ", "S", "a", "l", "e", "s", " ", "(", "D", "r", "a", "f", "t", ")">>, <<"S", "u", "m", "m", "a", "r", "y">>, <<"-", "-", "N", "e", "t", " ", " ", "T", "O", "T", "A", "L", "-", "-">>, <<"*", "*", "*">> }

MainWorkbook(sheet_name) ==
    WorkbookPart(<< SheetElem(Some(sheet_name), "rId2"), SheetElem(Some(<<"D", "a", "t", "a">>), "rId1") >>)

MainPackages ==
    { Package(MainWorkbook(sheet_name), RelsPart(WorkbookRels), "drawing_ok", "drawing_with_image") :
        sheet_name \in TocNames }
    \cup
    { Package(MainWorkbook(<<"S", "u", "m", "m", "a", "r", "y">>), RelsPart(WorkbookRels), "drawing_malformed", "no_rels"),
      Package(MainWorkbook(<<"S", "u", "m", "m", "a", "r", "y">>), RelsPart(WorkbookRels), "no_rels", "drawing_malformed"),
      Package(MalformedPart, RelsPart(WorkbookRels), "diagram_cyclic", "no_rels") }

\* What the input path names.
InputFiles ==
    { [kind |-> "missing", path |-> "/in/book.xlsx"],
      [kind |-> "not_zip", path |-> "/in/book.xlsx"] }
    \cup { [kind |-> "xlsx", path |-> "/in/book.xlsx", zipf |-> zipf] : zipf \in MainPackages }

\* The output directory before the first run: not there, or there with
\* what an earlier run on another workbook left.
OutputDirs ==
    { [output_dir |-> FALSE, images_dir |-> FALSE, images |-> NoFiles,
       json |-> None, md |-> None],
      [output_dir |-> TRUE, images_dir |-> TRUE,
       images |-> [n \in { <<"O", "l", "d", "_", "i", "m", "g", "_", "1", ".", "p", "n", "g">> } |-> "old bytes"],
       json |-> Some("old json"), md |-> Some("old markdown")] }

MainInit ==
    /\ mn \in [pc : {"called"}, input : InputFiles, fs : OutputDirs, clock : {0},
                stderr : {<<>>}, stdout : {<<>>}, data : {None}, runs : {<<>>}]
    /\ nrt = Idle
    /\ sa = Idle
    /\ ex = Idle
    /\ pe = Idle
    /\ rr = Idle

\* Lines 503-505: the input path names no file.
InputNotFound ==
    /\ mn.pc = "called"
    /\ mn.input.kind = "missing"
    /\ mn' = input_not_found(mn)
    /\ UNCHANGED notMain

\* Line 427: the file is no zip archive; zipfile.ZipFile raises BadZipFile
\* after the directories are made, and nothing in process_excel or main
\* catches it.
OpenZipRaises ==
    /\ mn.pc = "called"
    /\ mn.input.kind = "not_zip"
    /\ mn' = [mn EXCEPT !.pc = "exited",
                        !.fs = ensure_dirs(@),
                        !.runs = Append(@, Escaped("BadZipFile"))]
    /\ UNCHANGED notMain

\* Line 507: process_excel returns the data.
ProcessExcel ==
    /\ mn.pc = "called"
    /\ mn.input.kind = "xlsx"
    /\ main_process(mn).pc = "processed"
    /\ mn' = main_process(mn)
    /\ UNCHANGED notMain

\* Line 507: an exception leaves process_excel, and main with it.
ProcessExcelRaises ==
    /\ mn.pc = "called"
    /\ mn.input.kind = "xlsx"
    /\ main_process(mn).pc = "exited"
    /\ mn' = main_process(mn)
    /\ UNCHANGED notMain

\* Lines 509-521: the two files are written and main returns 0.
WriteOutputs ==
    /\ mn.pc = "processed"
    /\ mn' = [mn EXCEPT !.pc = "exited",
                        !.fs.json = Some(json_dump(Get(mn.data))),
                        !.fs.md = Some(generate_markdown(Get(mn.data), mn.clock)),
                        !.stdout = @ \o << <<"W", "r", "o", "t", "e", ":", " ", "e", "x", "t", "r", "a", "c", "t", "e", "d", "_", "d", "a", "t", "a", ".", "j", "s", "o", "n">>, <<"W", "r", "o", "t", "e", ":", " ", "c", "o", "n", "v", "e", "r", "t", "e", "d", ".", "m", "d">> >>,
                        !.runs = Append(@, Returned(0))]
    /\ UNCHANGED notMain

\* Time passes.
Tick ==
    /\ mn.pc \in {"called", "processed", "exited"}
    /\ mn.clock < MaxClock
    /\ mn' = [mn EXCEPT !.clock = @ + 1]
    /\ UNCHANGED notMain

\* main is run again on the same input and output directory.
RunAgain ==
    /\ mn.pc = "exited"
    /\ Len(mn.runs) < MaxRuns
    /\ mn' = [mn EXCEPT !.pc = "called", !.data = None]
    /\ UNCHANGED notMain

MainNext ==
    \/ InputNotFound
    \/ OpenZipRaises
    \/ ProcessExcel
    \/ ProcessExcelRaises
    \/ WriteOutputs
    \/ Tick
    \/ RunAgain

-----------------------------------------------------------------------------
(* The two readers of relationships, each called once on an archive that   *)
(* holds a part and, where the package format puts it, the relationships   *)
(* of the part.                                                            *)

\* The directories and the names of the owning parts.
RelsDirs ==
    { <<"x", "l", "/", "w", "o", "r", "k", "s", "h", "e", "e", "t", "s">>, <<"x", "l", "/", "w", "o", "r", "k", "s", "h", "e", "e", "t", "s", "/", "s", "u", "b">>, <<"x", "l", "/", "s", "h", "e", "e", "t", "s">>, <<"x", "l", "/", "w", "o", "r", "k", "s", "h", "e", "e", "t", "s", "2">>,
      <<"x", "l", "/", "d", "r", "a", "w", "i", "n", "g", "s">>, <<"x", "l", "/", "c", "h", "a", "r", "t", "s", "h", "e", "e", "t", "s">>, <<"/", "x", "l", "/", "w", "o", "r", "k", "s", "h", "e", "e", "t", "s">>, <<"x", "l">>, <<>> }
RelsBases == { <<"s", "h", "e", "e", "t", "1", ".", "x", "m", "l">>, <<"d", "r", "a", "w", "i", "n", "g", "1", ".", "x", "m", "l">>, <<"s">> }

\* The part <base> of the directory <dir>, and the part that holds its
\* relationships: <dir>/_rels/<base>.rels.
PartIn(dir, base) == IF dir = <<>> THEN base ELSE dir \o <<"/">> \o base
RelsPartOf(dir, base) == PartIn(dir, <<"_", "r", "e", "l", "s", "/">> \o base \o <<".", "r", "e", "l", "s">>)

\* What the archive has as the relationships of the part.
RelsContents ==
    { NoPart, MalformedPart, RelsPart(<<>>),
      RelsPart(<< Relationship("rId1", <<"h", "t", "t", "p", ":", "/", "/", "x", "/", "d", "r", "a", "w", "i", "n", "g">>, <<".", ".", "/", "d", "r", "a", "w", "i", "n", "g", "s", "/", "d", "r", "a", "w", "i", "n", "g", "1", ".", "x", "m", "l">>),
                  Relationship("rId2", <<"h", "t", "t", "p", ":", "/", "/", "x", "/", "i", "m", "a", "g", "e">>, <<".", ".", "/", "m", "e", "d", "i", "a", "/", "i", "m", "a", "g", "e", "1", ".", "p", "n", "g">>),
                  Relationship("rId1", <<"h", "t", "t", "p", ":", "/", "/", "x", "/", "d", "r", "a", "w", "i", "n", "g">>, <<".", ".", "/", "d", "r", "a", "w", "i", "n", "g", "s", "/", "d", "r", "a", "w", "i", "n", "g", "2", ".", "x", "m", "l">>) >>) }

RelsArchive(dir, base, content) ==
    Archive([n \in {PartIn(dir, base), RelsPartOf(dir, base)} |->
                IF n = RelsPartOf(dir, base) THEN content ELSE [kind |-> "sheet"]])

\* A call of one of the readers: what it was called with, the path it
\* looked up in the archive, and how it ended.
RelsCall(fn, dir, base, content, rels_path, r) ==
    [pc |-> IF r.raised THEN "raised" ELSE "returned",
     fn |-> fn, dir |-> dir, base |-> base,
     zipf |-> RelsArchive(dir, base, content), part_path |-> PartIn(dir, base),
     rels_path |-> rels_path, rels |-> r.rels]

RelsInit ==
    /\ rr = [pc |-> "start"]
    /\ nrt = Idle
    /\ sa = Idle
    /\ ex = Idle
    /\ pe = Idle
    /\ mn = Idle

\* Lines 110-123, the mapping returned.
ReadRels ==
    /\ rr.pc = "start"
    /\ \E dir \in RelsDirs, base \in RelsBases, content \in RelsContents :
         LET r == read_rels(RelsArchive(dir, base, content), PartIn(dir, base))
         IN  /\ ~r.raised
             /\ rr' = RelsCall("read_rels", dir, base, content,
                               read_rels_path(PartIn(dir, base)), r)
    /\ UNCHANGED notRels

\* Lines 110-123, load_xml raising at line 117.
ReadRelsRaises ==
    /\ rr.pc = "start"
    /\ \E dir \in RelsDirs, base \in RelsBases, content \in RelsContents :
         LET r == read_rels(RelsArchive(dir, base, content), PartIn(dir, base))
         IN  /\ r.raised
             /\ rr' = RelsCall("read_rels", dir, base, content,
                               read_rels_path(PartIn(dir, base)), r)
    /\ UNCHANGED notRels

\* Lines 94-107, the mapping returned.
ReadSheetRelationships ==
    /\ rr.pc = "start"
    /\ \E dir \in RelsDirs, base \in RelsBases, content \in RelsContents :
         LET r == read_sheet_relationships(RelsArchive(dir, base, content), PartIn(dir, base))
         IN  /\ ~r.raised
             /\ rr' = RelsCall("read_sheet_relationships", dir, base, content,
                               sheet_rels_path(PartIn(dir, base)), r)
    /\ UNCHANGED notRels

\* Lines 94-107, load_xml raising at line 101.
ReadSheetRelationshipsRaises ==
    /\ rr.pc = "start"
    /\ \E dir \in RelsDirs, base \in RelsBases, content \in RelsContents :
         LET r == read_sheet_relationships(RelsArchive(dir, base, content), PartIn(dir, base))
         IN  /\ r.raised
             /\ rr' = RelsCall("read_sheet_relationships", dir, base, content,
                               sheet_rels_path(PartIn(dir, base)), r)
    /\ UNCHANGED notRels

RelsNext ==
    \/ ReadRels
    \/ ReadRelsRaises
    \/ ReadSheetRelationships
    \/ ReadSheetRelationshipsRaises

-----------------------------------------------------------------------------
(* The specifications: one per operation, the other operations idle.       *)

SpecPath == PathInit /\ [][PathNext]_vars

SpecSmartArt == SmartArtInit /\ [][SmartArtNext]_vars

\* The build runs on: no call or return of build_node waits for anything.
SpecSmartArtFair == SpecSmartArt /\ WF_vars(BuildNext)

SpecDrawing == DrawingInit /\ [][DrawingNext]_vars

SpecProcess == ProcessInit /\ [][ProcessNext]_vars

SpecRels == RelsInit /\ [][RelsNext]_vars

SpecMain == MainInit /\ [][MainNext]_vars

-----------------------------------------------------------------------------------------------------------------------------------------------------
(* What the data model declares, read off the point and connection lists,  *)
(* and what a forest holds.                                                *)

\* The connection is an edge: it has a source id and a destination id.
IsEdge(cxn) == cxn.srcId # NoId /\ cxn.destId # NoId

\* The destination ids of the edges that leave id, in declaration order.
DeclaredDests(cxns, id) ==
    LET out == SelectSeq(cxns, LAMBDA c : IsEdge(c) /\ c.srcId = id)
    IN  [i \in 1..Len(out) |-> out[i].destId]

\* The number of edges that arrive at id.
DeclaredIndegree(cxns, id) == Len(SelectSeq(cxns, LAMBDA c : IsEdge(c) /\ c.destId = id))

\* The model ids of the points, in document order, each id once.
PointIds(points) ==
    LET withId == SelectSeq(points, LAMBDA pt : pt.modelId # NoId)
        F[i \in 0..Len(withId)] ==
            IF i = 0 THEN <<>>
            ELSE IF \E j \in 1..(i-1) : withId[j].modelId = withId[i].modelId
                 THEN F[i-1]
            ELSE Append(F[i-1], withId[i].modelId)
    IN  F[Len(withId)]

\* The point ids with no incoming edge, in document order.
ZeroIndegreePointIds(points, cxns) ==
    SelectSeq(PointIds(points), LAMBDA id : DeclaredIndegree(cxns, id) = 0)

\* The ids of a sequence of nodes.
IdsOf(nodes) == [i \in 1..Len(nodes) |-> nodes[i].id]

\* The ids of a node and of all its descendants, in preorder.
RECURSIVE PreorderIds(_)
PreorderIds(node) ==
    LET F[i \in 0..Len(node.children)] ==
            IF i = 0 THEN <<>> ELSE F[i-1] \o PreorderIds(node.children[i])
    IN  <<node.id>> \o F[Len(node.children)]

ForestIds(nodes) ==
    LET F[i \in 0..Len(nodes)] ==
            IF i = 0 THEN <<>> ELSE F[i-1] \o PreorderIds(nodes[i])
    IN  F[Len(nodes)]

\* A node and all its descendants.
RECURSIVE Subtrees(_)
Subtrees(node) ==
    {node} \cup UNION {Subtrees(node.children[i]) : i \in 1..Len(node.children)}

ForestNodes(nodes) == UNION {Subtrees(nodes[i]) : i \in 1..Len(nodes)}

NoDuplicates(seq) == \A i, j \in 1..Len(seq) : seq[i] = seq[j] => i = j

\* build_smartart_hierarchy has ended, by return or by an exception.
SaEnded == sa.pc \in {"returned", "raised"}

\* It has ended after parsing the point list and the connection list.
SaBuilt == SaEnded /\ sa.error # "ParseError"

\* Some edge sequence leads from id back to id.
RECURSIVE Reaches(_, _, _, _)
Reaches(cxns, from, to, fuel) ==
    /\ fuel > 0
    /\ \E i \in 1..Len(cxns) :
        /\ IsEdge(cxns[i]) /\ cxns[i].srcId = from
        /\ (cxns[i].destId = to \/ Reaches(cxns, cxns[i].destId, to, fuel - 1))

OnCycle(cxns, id) == Reaches(cxns, id, id, Cardinality(NodeIds))

-----------------------------------------------------------------------------
(* A bound on the steps build_smartart_hierarchy has left.                 *)

\* The most steps a build_node call at depth k takes, from after its entry
\* up to its return: each of its at most MaxCxns children is entered and
\* runs, then it returns.  At depth RecursionLimit no child is entered.
SubtreeCost ==
    LET T[j \in 0..RecursionLimit] ==
            IF j = 0 THEN 0 ELSE MaxCxns * (1 + T[j-1]) + 1
    IN  [k \in 1..(RecursionLimit + 1) |-> T[RecursionLimit + 1 - k]]

\* The steps left to the call at depth k of the stack: the children it has
\* not entered yet, and its return.
FrameCost(s, k) ==
    LET f == s.stack[k]
        entered == Len(f.children) + (IF k < Len(s.stack) THEN 1 ELSE 0)
    IN  (Len(s.children_map[f.node_id]) - entered) * (1 + SubtreeCost[k+1]) + 1

SaRank ==
    IF sa.pc = "load" THEN MaxPoints * (1 + SubtreeCost[1]) + 2
    ELSE IF sa.pc = "build"
    THEN LET entered == Len(sa.nodes) + (IF sa.stack # <<>> THEN 1 ELSE 0)
             S[k \in 0..Len(sa.stack)] ==
                 IF k = 0 THEN 0 ELSE S[k-1] + FrameCost(sa, k)
         IN  (Len(sa.todo) - entered) * (1 + SubtreeCost[1]) + S[Len(sa.stack)] + 1
    ELSE 0

(* C3: build_smartart_hierarchy ends, by returning or by raising, in a     *)
(* bounded number of steps for every point list and connection list,       *)
(* cyclic ones included: every step takes the natural number SaRank down.  *)
C3_EndsInBoundedSteps == [][SaRank' < SaRank /\ SaRank' >= 0]_vars

\* The same as a liveness property of the build under weak fairness: once
\* the data model is parsed, the build ends.
Terminates == (sa.pc = "build") ~> SaEnded

\* A cyclic data model in which no point has indegree zero has ended, by
\* RecursionError.
C3_Witness ==
    /\ sa.pc = "raised"
    /\ sa.error = "RecursionError"
    /\ PointIds(sa.points) # <<>>
    /\ ZeroIndegreePointIds(sa.points, sa.cxns) = <<>>
    /\ \E id \in NodeIds : OnCycle(sa.cxns, id)

(* C4: when points exist and none has indegree zero, the result is one     *)
(* root per point, in document order, each with no children.  Violated:    *)
(* the fallback builds each point with build_node, children and all.       *)
C4_FallbackRootsWithoutChildren ==
    (/\ SaBuilt
     /\ PointIds(sa.points) # <<>>
     /\ ZeroIndegreePointIds(sa.points, sa.cxns) = <<>>)
        => /\ sa.pc = "returned"
           /\ IdsOf(sa.nodes) = PointIds(sa.points)
           /\ \A i \in 1..Len(sa.nodes) : sa.nodes[i].children = <<>>

(* C5: in the returned forest every node id occurs at most once and no     *)
(* node is its own descendant.  Violated: a point that is the destination  *)
(* of two connections is built under each of its sources.                  *)
C5_IdsUniqueAndAcyclic ==
    sa.pc = "returned"
        => /\ NoDuplicates(ForestIds(sa.nodes))
           /\ \A n \in ForestNodes(sa.nodes) :
                \A i \in 1..Len(n.children) :
                    \A m \in Subtrees(n.children[i]) : m.id # n.id

(* C6: the children of every node of the returned forest are the           *)
(* destinations of the edges that leave the node, in declaration order;    *)
(* points A, B, C with connections A->B, A->C give the single root A with  *)
(* children B, C.                                                          *)
C6_ChildrenInDeclarationOrder ==
    sa.pc = "returned"
        => /\ \A n \in ForestNodes(sa.nodes) :
                IdsOf(n.children) = DeclaredDests(sa.cxns, n.id)
           /\ (/\ PointIds(sa.points) = <<"A", "B", "C">>
               /\ sa.cxns = << [srcId |-> "A", destId |-> "B"],
                               [srcId |-> "A", destId |-> "C"] >>)
                => /\ IdsOf(sa.nodes) = <<"A">>
                   /\ IdsOf(sa.nodes[1].children) = <<"B", "C">>
                   /\ \A i \in 1..2 : sa.nodes[1].children[i].children = <<>>

\* The data model of the example has been built.
C6_Witness ==
    /\ sa.pc = "returned"
    /\ PointIds(sa.points) = <<"A", "B", "C">>
    /\ sa.cxns = << [srcId |-> "A", destId |-> "B"], [srcId |-> "A", destId |-> "C"] >>
    /\ IdsOf(sa.nodes) = <<"A">>

(* C7: when some point has indegree zero, the returned roots are the       *)
(* points with a model id and indegree zero, in document order; a data     *)
(* model without connections returns every point as a root without         *)
(* children.                                                               *)
C7_RootsAreZeroIndegreePoints ==
    /\ (sa.pc = "returned" /\ ZeroIndegreePointIds(sa.points, sa.cxns) # <<>>)
        => IdsOf(sa.nodes) = ZeroIndegreePointIds(sa.points, sa.cxns)
    /\ (SaBuilt /\ sa.cxns = <<>>)
        => /\ sa.pc = "returned"
           /\ IdsOf(sa.nodes) = PointIds(sa.points)
           /\ \A i \in 1..Len(sa.nodes) : sa.nodes[i].children = <<>>

\* A data model with a point that is a root and a point that is not, with a
\* point without model id among them, has been built.
C7_Witness ==
    /\ sa.pc = "returned"
    /\ \E i \in 1..Len(sa.points) : sa.points[i].modelId = NoId
    /\ ZeroIndegreePointIds(sa.points, sa.cxns) # <<>>
    /\ ZeroIndegreePointIds(sa.points, sa.cxns) # PointIds(sa.points)
    /\ Len(sa.nodes) = 1

-----
(* C8: for every base directory D and target T with a "../" segment, the   *)
(* result of normalize_rel_target(D, T) has no ".." segment and no "./"    *)
(* segment.  Violated: a target with more "../" segments than the base has *)
(* components keeps a leading "..".                                        *)
C8_NoDotSegments ==
    (nrt.pc # "start" /\ HasDotDotSlashSegment(nrt.target))
        => (~HasDotDotSegment(nrt.out) /\ ~HasDotSlashSegment(nrt.out))

(* C9: normalisation is idempotent: with P = normalize_rel_target(D, T),   *)
(* normalize_rel_target(P, "") is P.                                       *)
C9_Idempotent == nrt.pc = "done" => nrt.again = nrt.out

\* A target that climbs out of a two-level base was resolved, and resolved again.
C9_Witness ==
    /\ nrt.pc = "done"
    /\ nrt.base = <<"a", "/", "a">>
    /\ nrt.target = <<".", ".", "/", "a">>
    /\ nrt.out = <<"a", "/", "a">>
    /\ nrt.again = nrt.out

-----------------------------------------------------------------------------
(* Shape text.                                                             *)

\* The anchor the loop of extract_images_and_shapes has just been through.
LastAnchor == ex.anchors[ex.done]

\* The last anchor was handled as a shape (no pic child) and the text body
\* of the shape holds the runs "Hello", " ", "World".
HelloShapeDone ==
    /\ ex.pc \in {"loop", "returned"}
    /\ ex.done > 0
    /\ LastAnchor.pic = None
    /\ LastAnchor.sp # None
    /\ Get(LastAnchor.sp).txBody = Some(HelloRuns)

\* C10: a shape whose text body holds the runs "Hello", " ", "World" yields
\* a shape item whose text is exactly "Hello World".
C10_HelloWorldText ==
    HelloShapeDone =>
        /\ ex.shapes # <<>>
        /\ ex.shapes[Len(ex.shapes)].text = <<"H", "e", "l", "l", "o", " ", "W", "o", "r", "l", "d">>

-----------------------------------------------------------------------------
(* The sheets of the result.                                               *)

\* The two workbook parts are in the archive and are well-formed.
WorkbookReadable(zipf) ==
    /\ {WorkbookXmlPath, WorkbookRelsPath} \subseteq DOMAIN zipf
    /\ zipf[WorkbookXmlPath].kind = "workbook"
    /\ zipf[WorkbookRelsPath].kind = "rels"

\* The ids of the worksheet relationships of the workbook.
WorksheetRelIds(zipf) ==
    LET rels == zipf[WorkbookRelsPath].rels
    IN  {rels[i].Id : i \in {j \in 1..Len(rels) : EndsWith(rels[j].Type, <<"/", "w", "o", "r", "k", "s", "h", "e", "e", "t">>)}}

\* The names of the sheet elements of workbook.xml whose r:id is that of a
\* worksheet relationship, in document order.
DeclaredSheetNames(zipf) ==
    LET declared == SelectSeq(zipf[WorkbookXmlPath].sheets,
                              LAMBDA sheet : sheet.rid \in WorksheetRelIds(zipf))
    IN  [i \in 1..Len(declared) |->
            IF declared[i].name = None THEN <<"S", "h", "e", "e", "t">> ELSE Get(declared[i].name)]

ResultSheetNames == [i \in 1..Len(pe.result.sheets) |-> pe.result.sheets[i].name]

\* C1: when process_excel returns, the sheets array of the result and
\* metadata.sheets list the sheets in the document order of the sheet
\* elements of workbook.xml, whatever the order of the relationship ids or
\* of the names of the worksheet parts.
C1_SheetsInDocumentOrder ==
    (pe.pc = "returned" /\ WorkbookReadable(pe.zipf)) =>
        /\ ResultSheetNames = DeclaredSheetNames(pe.zipf)
        /\ pe.result.metadata.sheets = DeclaredSheetNames(pe.zipf)

\* Summary (rId2, sheet1.xml) is declared before Data (rId1, sheet2.xml):
\* the order of the ids is the other way round.
C1_Witness ==
    /\ pe.pc = "returned"
    /\ WorkbookReadable(pe.zipf)
    /\ Len(sheet_elements(pe.zipf[WorkbookXmlPath])) = 2
    /\ sheet_elements(pe.zipf[WorkbookXmlPath])[1].rid = "rId2"
    /\ sheet_elements(pe.zipf[WorkbookXmlPath])[2].rid = "rId1"
    /\ ResultSheetNames = << <<"S", "u", "m", "m", "a", "r", "y">>, <<"D", "a", "t", "a">> >>

\* A drawing part, or the relationships of a sheet or of a drawing, is not
\* well-formed XML.
MalformedDrawingOrRels(zipf) ==
    \E n \in DOMAIN zipf \ {WorkbookXmlPath, WorkbookRelsPath, DataModelPath} :
        zipf[n].kind = "malformed"

\* C2: with a malformed drawing part or relationships file in the package,
\* process_excel does not raise, and its result has an entry for every
\* sheet.
C2_MalformedPartContained ==
    (pe.pc \in {"returned", "raised"} /\ MalformedDrawingOrRels(pe.zipf)) =>
        /\ pe.pc = "returned"
        /\ Len(pe.result.sheets) = Len(pe.sheets)

-----------------------------------------------------------------------------
(* The image files of a run.                                               *)

\* The names the images of the result were saved under, in the order of
\* the result.
ResultImageFilenames ==
    [i \in 1..Len(pe.result.images) |-> pe.result.images[i].image_filename]

\* C11: within one run of process_excel any two image items are saved
\* under different filenames, so that no written image is overwritten.
C11_ImageFilesWrittenOnce ==
    pe.pc \in {"sheets", "returned", "raised"} => NoDuplicates(ResultImageFilenames)

-----------------------------------------------------------------------------
(* Pictures.                                                               *)

\* The Relationship elements of the rels file of the drawing in hand, none
\* when the archive has no such file.
DrawingRelElements ==
    IF read_rels_path(ex.drawing_path) \in DOMAIN ex.zipf
    THEN ex.zipf[read_rels_path(ex.drawing_path)].rels ELSE <<>>

\* The anchor has a picture with a blip whose embed id is that of a
\* relationship of the drawing.
PictureHasRelationship(anchor) ==
    /\ anchor.pic # None
    /\ Get(anchor.pic).blip # None
    /\ \E i \in 1..Len(DrawingRelElements) :
          DrawingRelElements[i].Id = Get(Get(anchor.pic).blip).embed

\* The part a picture's relationship points to: the target ../media/<name>
\* of a drawing in xl/drawings is xl/media/<name>.
PictureSource(anchor) ==
    LET rel == CHOOSE r \in {DrawingRelElements[i] : i \in 1..Len(DrawingRelElements)} :
                   r.Id = Get(Get(anchor.pic).blip).embed
    IN  <<"x", "l", "/">> \o SubSeq(rel.Target, 4, Len(rel.Target))

\* The picture is one the claim says is saved.
PictureResolves(anchor) ==
    PictureHasRelationship(anchor) /\ PictureSource(anchor) \in DOMAIN ex.zipf

\* The anchors gone through so far, and those of them with a picture to save.
VisitedAnchors == SubSeq(ex.anchors, 1, ex.done)
SavedPictures == SelectSeq(VisitedAnchors, PictureResolves)

\* The sheet names of the drawings, sanitized by hand.
SanitizedSheetName ==
    IF ex.sheet_name = <<"S", "a", "l", "e", "s">> THEN <<"S", "a", "l", "e", "s">> ELSE <<"Q", "1", "_", "Q", "2">>

\* The extension of the two media parts, .bin for the one without.
SavedExtension(part) == IF part = ImagePart THEN <<".", "p", "n", "g">> ELSE <<".", "b", "i", "n">>

\* <sanitized sheet name>_img_<k><extension>, k below ten.
ExpectedImageName(k, part) ==
    SanitizedSheetName \o <<"_", "i", "m", "g", "_">> \o <<DigitChars[k + 1]>> \o SavedExtension(part)

ExtractionRunning == ex.pc \in {"loop", "returned"}

\* C12: the pictures whose blip id is in the relationships of the drawing
\* and whose part is in the archive are the ones that give an image item;
\* the k-th item is saved as <sanitized sheet name>_img_<k><extension or
\* .bin>, carries the sheet name, and the saved file holds the bytes of the
\* media part.
C12_PictureItems ==
    ExtractionRunning =>
        /\ Len(ex.images) = Len(SavedPictures)
        /\ \A k \in 1..Len(SavedPictures) :
              LET source == PictureSource(SavedPictures[k])
                  name == ExpectedImageName(k, source)
              IN  /\ ex.images[k].sheet_name = ex.sheet_name
                  /\ ex.images[k].original_part = source
                  /\ ex.images[k].image_filename = <<"i", "m", "a", "g", "e", "s", "/">> \o name
                  /\ name \in DOMAIN ex.files
                  /\ ex.files[name] = ex.zipf[source].bytes

\* Sheet Sales, one picture of xl/media/image1.png: one item, Sales_img_1.png.
C12_Witness ==
    /\ ex.pc = "returned"
    /\ ex.sheet_name = <<"S", "a", "l", "e", "s">>
    /\ Len(ex.images) = 1
    /\ ex.images[1].original_part = ImagePart
    /\ ex.images[1].image_filename = <<"i", "m", "a", "g", "e", "s", "/", "S", "a", "l", "e", "s", "_", "i", "m", "g", "_", "1", ".", "p", "n", "g">>
    /\ ex.files[<<"S", "a", "l", "e", "s", "_", "i", "m", "g", "_", "1", ".", "p", "n", "g">>] = "png bytes"

\* The next anchor of the loop has a picture that the archive cannot give:
\* no blip, no embed id, an id that is not in the relationships, or a part
\* that is not in the archive.
NextPictureUnresolved ==
    /\ ex.pc = "loop"
    /\ ex.done < Len(ex.anchors)
    /\ ex.anchors[ex.done + 1].pic # None
    /\ ~PictureResolves(ex.anchors[ex.done + 1])

\* C13: a picture that does not resolve gives no image, writes no file,
\* does not raise, and the loop goes on to the next anchor.
C13_UnresolvedPictureSkipped ==
    [][NextPictureUnresolved =>
          /\ ex'.pc = "loop"
          /\ ex'.done = ex.done + 1
          /\ ex'.images = ex.images
          /\ ex'.files = ex.files
          /\ ex'.written = ex.written]_vars

\* A picture whose id is not in the relationships was passed over, and the
\* picture after it was saved.
C13_Witness ==
    /\ ExtractionRunning
    /\ ex.done = 2
    /\ ex.anchors[1].pic = Pic("rId9")
    /\ DrawingRelElements # <<>>
    /\ PictureResolves(ex.anchors[2])
    /\ Len(ex.images) = 1

-----------------------------------------------------------------------------
(* What one anchor adds.                                                   *)

\* C14: every anchor adds at most one item in all to the images, the
\* shape texts and the diagram references.
C14_AtMostOneItemPerAnchor ==
    ExtractionRunning =>
        Len(ex.images) + Len(ex.shapes) + Len(ex.smartart_refs) <= ex.done

\* The next anchor of the loop is handled as a graphic frame of a diagram
\* whose data-model id is in the relationships of the drawing.
NextFrameHasDataModel ==
    /\ ex.pc = "loop"
    /\ ex.done < Len(ex.anchors)
    /\ LET anchor == ex.anchors[ex.done + 1]
       IN  /\ anchor.pic = None
           /\ anchor.sp = None
           /\ anchor.graphicFrame # None
           /\ Get(anchor.graphicFrame).graphicData # None
           /\ Get(Get(anchor.graphicFrame).graphicData).uri = DiagramUri
           /\ Get(Get(anchor.graphicFrame).graphicData).relIds # None
           /\ \E i \in 1..Len(DrawingRelElements) :
                 DrawingRelElements[i].Id =
                     Get(Get(Get(anchor.graphicFrame).graphicData).relIds).dm

\* C15: a frame whose data-model id is in the relationships yields the
\* data-model reference alone; the layout, quick-style and color-style ids
\* give references only when the data-model id is absent.
C15_DataModelReferenceAlone ==
    [][NextFrameHasDataModel =>
          /\ Len(ex'.smartart_refs) = Len(ex.smartart_refs) + 1
          /\ ex'.smartart_refs[Len(ex'.smartart_refs)].rid =
                Get(Get(Get(ex.anchors[ex.done + 1].graphicFrame).graphicData).relIds).dm]_vars

-----------------------------------------------------------------------------
(* The order of the anchors.                                               *)

\* The anchor elements of the drawing in hand, in document order.
DocumentAnchors == ex.zipf[ex.drawing_path].anchors

\* All twoCellAnchor elements in document order, then all oneCellAnchor
\* elements in document order.
TwoCellThenOneCell ==
    SelectSeq(DocumentAnchors, LAMBDA a : a.tag = "twoCellAnchor")
        \o SelectSeq(DocumentAnchors, LAMBDA a : a.tag = "oneCellAnchor")

IsPrefix(s, t) == Len(s) <= Len(t) /\ SubSeq(t, 1, Len(s)) = s

\* The items of t that come after those of s.
Added(s, t) == {t[i] : i \in (Len(s) + 1)..Len(t)}

\* C16: the anchors are visited in the order all twoCellAnchor, then all
\* oneCellAnchor, each kind in document order, and every visit puts its
\* items at the end of the output sequences, so that each sequence lists
\* its items in visiting order.
C16_TwoCellThenOneCellOrder ==
    /\ [](ExtractionRunning => ex.anchors = TwoCellThenOneCell)
    /\ [][ex.pc = "loop" =>
             /\ IsPrefix(ex.images, ex'.images)
             /\ IsPrefix(ex.shapes, ex'.shapes)
             /\ IsPrefix(ex.smartart_refs, ex'.smartart_refs)
             /\ \A item \in Added(ex.images, ex'.images)
                          \cup Added(ex.shapes, ex'.shapes)
                          \cup Added(ex.smartart_refs, ex'.smartart_refs) :
                   /\ ex.done < Len(TwoCellThenOneCell)
                   /\ item.anchor = extract_anchor(TwoCellThenOneCell[ex.done + 1])]_vars

\* A oneCellAnchor with a shape comes before a twoCellAnchor with a shape
\* in the document; the text of the twoCellAnchor is listed first.
C16_Witness ==
    /\ ex.pc = "returned"
    /\ Len(DocumentAnchors) = 2
    /\ DocumentAnchors[1].tag = "oneCellAnchor"
    /\ DocumentAnchors[2].tag = "twoCellAnchor"
    /\ Len(ex.shapes) = 2
    /\ ex.shapes[1].anchor = extract_anchor(DocumentAnchors[2])
    /\ ex.shapes[2].anchor = extract_anchor(DocumentAnchors[1])
    /\ ex.shapes[1].anchor # ex.shapes[2].anchor

-----------------------------------------------------------------------------
(* The position of an anchor.                                              *)

PosFields == {"col", "colOff", "row", "rowOff"}

\* The text of the child f of the from element of an anchor, None when
\* the from element, the child or its text is missing.
FieldText(anchor, f) ==
    IF anchor.from = None THEN None
    ELSE IF Get(anchor.from)[f] = None THEN None
    ELSE Get(Get(anchor.from)[f])

\* A text that cannot be read as an integer: it has no digit, or a
\* character that is neither a digit, a sign, an underscore nor a space.
NotAnInteger(text) ==
    \/ \A i \in 1..Len(text) : text[i] \notin {"0", "1", "2", "3", "4", "5", "6", "7", "8", "9"}
    \/ \E i \in 1..Len(text) :
          text[i] \notin {"0", "1", "2", "3", "4", "5", "6", "7", "8", "9", "+", "-", "_", " "}

IsAnchorPos(p) ==
    /\ DOMAIN p = PosFields
    /\ \A f \in PosFields : p[f] \in Int

\* C17: for every anchor element extract_anchor returns a record with
\* exactly the four integer fields col, colOff, row and rowOff, and a
\* field whose from element or child is missing, or whose text is empty
\* or not an integer, is 0; every item carries such a record.
C17_AnchorDefaultsToZero ==
    ExtractionRunning =>
        /\ \A i \in 1..ex.done :
              LET p == extract_anchor(ex.anchors[i])
              IN  /\ IsAnchorPos(p)
                  /\ \A f \in PosFields :
                        \/ FieldText(ex.anchors[i], f) = None
                        \/ NotAnInteger(Get(FieldText(ex.anchors[i], f)))
                        => p[f] = 0
        /\ \A i \in 1..Len(ex.images) : IsAnchorPos(ex.images[i].anchor)
        /\ \A i \in 1..Len(ex.shapes) : IsAnchorPos(ex.shapes[i].anchor)
        /\ \A i \in 1..Len(ex.smartart_refs) : IsAnchorPos(ex.smartart_refs[i].anchor)

\* A shape whose from element has " 7 " as col, no colOff, "x" as row and
\* an empty rowOff, and a shape without from element.
C17_Witness ==
    /\ ex.pc = "returned"
    /\ Len(ex.anchors) = 2
    /\ ex.anchors[1].from = FromChoices[2]
    /\ ex.anchors[2].from = None
    /\ Len(ex.shapes) = 1
    /\ ex.shapes[1].anchor = [col |-> 7, colOff |-> 0, row |-> 0, rowOff |-> 0]
    /\ Len(ex.images) = 0

-----------------------------------------------------------------------------
(* A diagram whose forest cannot be built.                                 *)

\* The data model the third anchor of drawing1.xml refers to is missing,
\* is not well-formed XML, or sends build_node round a cycle.
DiagramFails(zipf) ==
    \/ DataModelPath \notin DOMAIN zipf
    \/ zipf[DataModelPath] \in {MalformedPart, CyclicDataModel}

\* The relationships of a sheet are in the package and lead to a drawing
\* that is in the package.
SheetHasDrawing(zipf, sheet_part, drawing_path) ==
    /\ sheet_rels_path(sheet_part) \in DOMAIN zipf
    /\ zipf[sheet_rels_path(sheet_part)].kind = "rels"
    /\ drawing_path \in DOMAIN zipf

\* The entries of the result for a worksheet part.
EntriesOf(sheet_part) ==
    {i \in 1..Len(pe.result.sheets) : pe.result.sheets[i].structure.sheet_part = sheet_part}

\* The forest of the second data model of drawing1.xml.
DataModel2Forest == << [id |-> "C", text |-> <<"C">>, children |-> <<>>] >>

\* C18: when the forest of one diagram cannot be built (part missing, XML
\* malformed, recursion failure), process_excel does not raise; the
\* diagram adds nothing, and the image, the shape text and the other
\* diagram of the same drawing, and the entries and shape texts of the
\* later sheets, are in the result.
C18_DiagramFailureContained ==
    (pe.pc \in {"sheets", "returned", "raised"}
        /\ DiagramFails(pe.zipf) /\ ~MalformedDrawingOrRels(pe.zipf)) =>
        /\ pe.pc # "raised"
        /\ pe.pc = "returned" =>
            /\ Len(pe.result.sheets) = Len(pe.sheets)
            /\ \A i \in EntriesOf(Sheet1Path) :
                  SheetHasDrawing(pe.zipf, Sheet1Path, DrawingPath) =>
                    /\ Len(pe.result.sheets[i].images) >= 1
                    /\ pe.result.sheets[i].images[1].original_part = ImagePart
                    /\ Len(pe.result.sheets[i].shapes_text) = 1
                    /\ pe.result.sheets[i].smartart = DataModel2Forest
            /\ \A i \in EntriesOf(Sheet2Path) :
                  SheetHasDrawing(pe.zipf, Sheet2Path, Drawing2Path) =>
                    Len(pe.result.sheets[i].shapes_text) = 1
            /\ \A i \in 1..Len(pe.result.smartart) :
                  pe.result.smartart[i] = DataModel2Forest[1]
            /\ Len(pe.result.smartart) =
                  IF SheetHasDrawing(pe.zipf, Sheet1Path, DrawingPath)
                  THEN Cardinality(EntriesOf(Sheet1Path)) ELSE 0

\* The first sheet has the drawing with the cyclic data model and the
\* second sheet a drawing with a shape: the result has the image, the
\* shape text and the other diagram of the first sheet and the shape text
\* of the second.
C18_Witness ==
    /\ pe.pc = "returned"
    /\ DataModelPath \in DOMAIN pe.zipf
    /\ pe.zipf[DataModelPath] = CyclicDataModel
    /\ ~MalformedDrawingOrRels(pe.zipf)
    /\ Len(pe.result.sheets) = 2
    /\ pe.result.sheets[1].structure.sheet_part = Sheet1Path
    /\ pe.result.sheets[2].structure.sheet_part = Sheet2Path
    /\ Len(pe.result.sheets[1].images) = 1
    /\ pe.result.sheets[1].smartart = DataModel2Forest
    /\ Len(pe.result.sheets[2].shapes_text) = 1

-----------------------------------------------------------------------------
(* A workbook whose sheets cannot be read.                                 *)

\* C19: when xl/workbook.xml or xl/_rels/workbook.xml.rels is missing or
\* is not well-formed, process_excel goes on with exactly one sheet, named
\* Sheet1, with part xl/worksheets/sheet1.xml; when it returns the result
\* has exactly that one entry; it raises only when a drawing part or the
\* relationships of a sheet or of a drawing are not well-formed.
C19_SingleSheetFallback ==
    (pe.pc \in {"sheets", "returned", "raised"} /\ ~WorkbookReadable(pe.zipf)) =>
        /\ pe.sheets = << [name |-> <<"S", "h", "e", "e", "t", "1">>, part |-> <<"x", "l", "/", "w", "o", "r", "k", "s", "h", "e", "e", "t", "s", "/", "s", "h", "e", "e", "t", "1", ".", "x", "m", "l">>] >>
        /\ pe.result.metadata.sheets = << <<"S", "h", "e", "e", "t", "1">> >>
        /\ pe.pc = "raised" => MalformedDrawingOrRels(pe.zipf)
        /\ pe.pc = "returned" =>
              /\ Len(pe.result.sheets) = 1
              /\ pe.result.sheets[1].name = <<"S", "h", "e", "e", "t", "1">>
              /\ pe.result.sheets[1].structure.sheet_part = <<"x", "l", "/", "w", "o", "r", "k", "s", "h", "e", "e", "t", "s", "/", "s", "h", "e", "e", "t", "1", ".", "x", "m", "l">>

\* xl/workbook.xml is missing and sheet1.xml has a drawing: the result has
\* the one entry Sheet1, with the image of the drawing.
C19_Witness ==
    /\ pe.pc = "returned"
    /\ WorkbookXmlPath \notin DOMAIN pe.zipf
    /\ Len(pe.result.sheets) = 1
    /\ pe.result.sheets[1].name = <<"S", "h", "e", "e", "t", "1">>
    /\ Len(pe.result.sheets[1].images) = 1

-----------------------------------------------------------------------------
(* A sheet whose relationship is not there.                                *)

\* The ids of all the relationships of the workbook.
WorkbookRelIds(zipf) ==
    {zipf[WorkbookRelsPath].rels[i].Id : i \in 1..Len(zipf[WorkbookRelsPath].rels)}

\* The sheet elements of workbook.xml in document order, without those
\* whose r:id is the id of no relationship of the workbook.
SheetsWithRelationship(zipf) ==
    SelectSeq(zipf[WorkbookXmlPath].sheets, LAMBDA sheet : sheet.rid \in WorkbookRelIds(zipf))

\* A sheet element has an r:id that is the id of no relationship.
SomeSheetUnmatched(zipf) ==
    \E i \in 1..Len(zipf[WorkbookXmlPath].sheets) :
        /\ zipf[WorkbookXmlPath].sheets[i].rid # ""
        /\ zipf[WorkbookXmlPath].sheets[i].rid \notin WorkbookRelIds(zipf)

\* The sheets of workbook.xml whose relationship is one to a worksheet, as
\* (name, part), in the order in which they are declared.
WorksheetsDeclared(zipf) ==
    LET rels == zipf[WorkbookRelsPath].rels
        declared == SelectSeq(SheetsWithRelationship(zipf),
                              LAMBDA sheet : sheet.rid \in WorksheetRelIds(zipf))
        part_of(rid) ==
            IF rid = "rId1" THEN Sheet2Path
            ELSE IF rid = "rId2" THEN Sheet1Path
            ELSE <<"/", "x", "l", "/", "w", "o", "r", "k", "s", "h", "e", "e", "t", "s", "/", "s", "h", "e", "e", "t", "3", ".", "x", "m", "l">>
    IN  [i \in 1..Len(declared) |->
            [name |-> IF declared[i].name = None THEN <<"S", "h", "e", "e", "t">> ELSE Get(declared[i].name),
             part |-> part_of(declared[i].rid)]]

\* C20: a sheet element of workbook.xml whose r:id is the id of no
\* relationship of the workbook is left out of the sheet list, no error is
\* raised for it (the list is the parsed one, not the Sheet1 default), and
\* every other sheet is listed, in the order in which it is declared.
C20_UnmatchedSheetSkipped ==
    (pe.pc \in {"sheets", "returned", "raised"}
        /\ WorkbookReadable(pe.zipf) /\ SomeSheetUnmatched(pe.zipf)) =>
        /\ ~pe.fallback
        /\ pe.sheets = WorksheetsDeclared(pe.zipf)
        /\ \A i \in 1..Len(pe.sheets) : pe.sheets[i].name # <<"G", "h", "o", "s", "t">>

\* Ghost (rId9, no such relationship) is declared before Data (rId1): the
\* list is Data alone.
C20_Witness ==
    /\ pe.pc = "returned"
    /\ WorkbookReadable(pe.zipf)
    /\ Len(pe.zipf[WorkbookXmlPath].sheets) = 2
    /\ pe.zipf[WorkbookXmlPath].sheets[1].rid = "rId9"
    /\ pe.zipf[WorkbookXmlPath].sheets[2].rid = "rId1"
    /\ ~pe.fallback
    /\ pe.sheets = << [name |-> <<"D", "a", "t", "a">>, part |-> Sheet2Path] >>
    /\ Len(pe.result.sheets) = 1

-----------------------------------------------------------------------------
(* The path of the relationships of a part.                                *)

\* C21: for every owning part, in any directory, the relationships file
\* that read_rels and read_sheet_relationships look up is
\* <directory of the part>/_rels/<basename of the part>.rels.
C21_RelsPathBesideThePart ==
    rr.pc \in {"returned", "raised"} => rr.rels_path = RelsPartOf(rr.dir, rr.base)

-----------------------------------------------------------------------------
(* A part without relationships file.                                      *)

NoRelationships == [raised |-> FALSE, rels |-> <<>>]

Sheet1RelsPart == RelsPartOf(<<"x", "l", "/", "w", "o", "r", "k", "s", "h", "e", "e", "t", "s">>, <<"s", "h", "e", "e", "t", "1", ".", "x", "m", "l">>)
Sheet2RelsPart == RelsPartOf(<<"x", "l", "/", "w", "o", "r", "k", "s", "h", "e", "e", "t", "s">>, <<"s", "h", "e", "e", "t", "2", ".", "x", "m", "l">>)
Drawing1RelsPart == RelsPartOf(<<"x", "l", "/", "d", "r", "a", "w", "i", "n", "g", "s">>, <<"d", "r", "a", "w", "i", "n", "g", "1", ".", "x", "m", "l">>)
Drawing2RelsPart == RelsPartOf(<<"x", "l", "/", "d", "r", "a", "w", "i", "n", "g", "s">>, <<"d", "r", "a", "w", "i", "n", "g", "2", ".", "x", "m", "l">>)

\* The entry i of the result has no image, no shape text and no diagram.
EmptyEntry(i) ==
    /\ pe.result.sheets[i].images = <<>>
    /\ pe.result.sheets[i].shapes_text = <<>>
    /\ pe.result.sheets[i].smartart = <<>>

\* C22: when the relationships file of a sheet or of a drawing is not in
\* the archive, read_sheet_relationships and read_rels return the empty
\* mapping and do not raise, and the part is processed as one without
\* relationships: a sheet gets an entry with nothing from drawings, a
\* drawing gives its shape texts and neither images nor diagrams.
C22_MissingRelsIsEmptyMapping ==
    pe.pc \in {"sheets", "returned", "raised"} =>
        /\ Sheet1RelsPart \notin DOMAIN pe.zipf =>
              read_sheet_relationships(pe.zipf, Sheet1Path) = NoRelationships
        /\ Sheet2RelsPart \notin DOMAIN pe.zipf =>
              read_sheet_relationships(pe.zipf, Sheet2Path) = NoRelationships
        /\ Drawing1RelsPart \notin DOMAIN pe.zipf =>
              read_rels(pe.zipf, DrawingPath) = NoRelationships
        /\ Drawing2RelsPart \notin DOMAIN pe.zipf =>
              read_rels(pe.zipf, Drawing2Path) = NoRelationships
        /\ pe.pc = "raised" => MalformedDrawingOrRels(pe.zipf)
        /\ pe.pc = "returned" =>
              /\ Len(pe.result.sheets) = Len(pe.sheets)
              /\ Sheet1RelsPart \notin DOMAIN pe.zipf =>
                    \A i \in EntriesOf(Sheet1Path) : EmptyEntry(i)
              /\ Sheet2RelsPart \notin DOMAIN pe.zipf =>
                    \A i \in EntriesOf(Sheet2Path) : EmptyEntry(i)
              /\ (Drawing1RelsPart \notin DOMAIN pe.zipf
                     /\ SheetHasDrawing(pe.zipf, Sheet1Path, DrawingPath)) =>
                    \A i \in EntriesOf(Sheet1Path) :
                        /\ pe.result.sheets[i].images = <<>>
                        /\ pe.result.sheets[i].smartart = <<>>
                        /\ Len(pe.result.sheets[i].shapes_text) = 1
              /\ (Drawing2RelsPart \notin DOMAIN pe.zipf
                     /\ SheetHasDrawing(pe.zipf, Sheet2Path, Drawing2Path)) =>
                    \A i \in EntriesOf(Sheet2Path) :
                        /\ pe.result.sheets[i].images = <<>>
                        /\ pe.result.sheets[i].smartart = <<>>
                        /\ Len(pe.result.sheets[i].shapes_text) = 1

\* The drawing of the first sheet, with a picture, a shape and two graphic
\* frames, has no relationships file, and the second sheet has none
\* either: the first entry has the shape text alone, the second nothing.
C22_Witness ==
    /\ pe.pc = "returned"
    /\ Drawing1RelsPart \notin DOMAIN pe.zipf
    /\ Sheet2RelsPart \notin DOMAIN pe.zipf
    /\ DrawingPath \in DOMAIN pe.zipf
    /\ Len(pe.result.sheets) = 2
    /\ pe.result.sheets[1].structure.sheet_part = Sheet1Path
    /\ pe.result.sheets[2].structure.sheet_part = Sheet2Path
    /\ Len(pe.result.sheets[1].shapes_text) = 1
    /\ pe.result.sheets[1].images = <<>>
    /\ pe.result.sheets[1].smartart = <<>>
    /\ EmptyEntry(2)

-----------------------------------------------------------------------------
(* The lists of the whole document and those of the sheets.                *)

\* The images, and the forests, of the entries of the result, one entry
\* after the other.
EntryImages ==
    LET F[i \in 0..Len(pe.result.sheets)] ==
            IF i = 0 THEN <<>> ELSE F[i-1] \o pe.result.sheets[i].images
    IN  F[Len(pe.result.sheets)]
EntrySmartArt ==
    LET F[i \in 0..Len(pe.result.sheets)] ==
            IF i = 0 THEN <<>> ELSE F[i-1] \o pe.result.sheets[i].smartart
    IN  F[Len(pe.result.sheets)]

\* C23: when process_excel returns, and after every sheet, the images list
\* of the result is the concatenation in sheet order of the images lists
\* of the sheet entries, and its smartart list the concatenation in sheet
\* order of their smartart lists.
C23_AggregatesAreConcatenations ==
    pe.pc \in {"sheets", "returned"} =>
        /\ pe.result.images = EntryImages
        /\ pe.result.smartart = EntrySmartArt

\* Two sheets with an image each, the first with diagrams: the image of
\* the first sheet comes first.
C23_Witness ==
    /\ pe.pc = "returned"
    /\ Len(pe.result.sheets) = 2
    /\ Len(pe.result.sheets[1].images) = 1
    /\ Len(pe.result.sheets[2].images) = 1
    /\ pe.result.sheets[1].images # pe.result.sheets[2].images
    /\ pe.result.images = pe.result.sheets[1].images \o pe.result.sheets[2].images
    /\ Len(pe.result.sheets[1].smartart) = 2
    /\ pe.result.smartart = pe.result.sheets[1].smartart

-----------------------------------------------------------------------------
(* The runs of main.                                                       *)

\* The run k returned 0: it wrote its two files.
RunWrote(k) ==
    /\ k <= Len(mn.runs)
    /\ mn.runs[k] = Returned(0)

\* The JSON of a run without metadata.created.
WithoutCreated(json) == [json EXCEPT !.value.metadata.created = <<>>]

\* C24: two runs of main on the same input file and the same output
\* directory write JSON that is the same apart from metadata.created, and
\* the same Markdown.
C24_SecondRunWritesTheSame ==
    [][(mn.pc = "processed" /\ mn'.pc = "exited" /\ Len(mn.runs) = 1 /\ RunWrote(1)) =>
          /\ WithoutCreated(Get(mn'.fs.json)) = WithoutCreated(Get(mn.fs.json))
          /\ mn'.fs.md = mn.fs.md]_vars

\* C25: when the input path names no file, main writes one message to
\* standard error and returns 2, and the output directory, the images
\* directory and the two files are as they were before.
C25_MissingInputWritesNothing ==
    [][(mn.pc = "called" /\ mn.input.kind = "missing" /\ mn'.pc # "called") =>
          /\ mn'.pc = "exited"
          /\ mn'.runs = Append(mn.runs, Returned(2))
          /\ Len(mn'.stderr) = Len(mn.stderr) + 1
          /\ mn'.fs = mn.fs
          /\ mn'.stdout = mn.stdout]_vars

\* No input file and no output directory: main has returned 2 with a
\* message on standard error, and there is still no output directory.
C25_Witness ==
    /\ mn.pc = "exited"
    /\ mn.input.kind = "missing"
    /\ mn.runs = << Returned(2) >>
    /\ Len(mn.stderr) = 1
    /\ ~mn.fs.output_dir
    /\ ~mn.fs.images_dir
    /\ mn.fs.json = None
    /\ mn.fs.md = None

\* C26: every run of main that does not succeed ends with main returning
\* a code other than 0 after a message on standard error; no exception
\* leaves main, also when the input file is no zip archive.
C26_FatalConditionsReturnNonZero ==
    mn.pc \in {"called", "processed", "exited"} =>
        \A k \in 1..Len(mn.runs) :
            /\ mn.runs[k].outcome = "returned"
            /\ mn.runs[k].code # 0 => mn.stderr # <<>>

-----------------------------------------------------------------------------
(* The table of contents.                                                  *)

\* The anchors of the sheet names of the runs, worked out by hand: lower
\* case, one hyphen for every run of characters outside a-z and 0-9, no
\* hyphen at either end.
ExpectedAnchor(sheet_name) ==
    CASE sheet_name = <<"Q", "1", " ", "S", "a", "l", "e", "s", " ", "(", "D", "r", "a", "f", "t", ")">> -> <<"q", "1", "-", "s", "a", "l", "e", "s", "-", "d", "r", "a", "f", "t">>
      [] sheet_name = <<"S", "u", "m", "m", "a", "r", "y">> -> <<"s", "u", "m", "m", "a", "r", "y">>
      [] sheet_name = <<"-", "-", "N", "e", "t", " ", " ", "T", "O", "T", "A", "L", "-", "-">> -> <<"n", "e", "t", "-", "t", "o", "t", "a", "l">>
      [] sheet_name = <<"*", "*", "*">> -> <<>>
      [] sheet_name = <<"D", "a", "t", "a">> -> <<"d", "a", "t", "a">>
      [] sheet_name = <<"S", "h", "e", "e", "t", "1">> -> <<"s", "h", "e", "e", "t", "1">>

\* C27: the Markdown has, under the heading of the table of contents, one
\* entry per sheet in sheet order and then an empty line; the entry of a
\* sheet is "- [name](#anchor)" with the anchor the lowercased name, every
\* maximal run of characters outside a-z and 0-9 replaced by one hyphen
\* and the hyphens at both ends removed.
C27_TableOfContentsAnchors ==
    (mn.pc = "exited" /\ RunWrote(Len(mn.runs))) =>
        LET md == Get(mn.fs.md)
            sheets == Get(mn.data).sheets
        IN  /\ Len(md) >= 4 + Len(sheets)
            /\ md[4] = <<"#", "#", " ", "T", "a", "b", "l", "e", " ", "o", "f", " ", "C", "o", "n", "t", "e", "n", "t", "s">>
            /\ \A i \in 1..Len(sheets) :
                  md[4 + i] = <<"-", " ", "[">> \o sheets[i].name \o <<"]", "(", "#">>
                                \o ExpectedAnchor(sheets[i].name) \o <<")">>
            /\ Len(md) > 4 + Len(sheets) => md[5 + Len(sheets)] = <<>>

\* The sheets Q1 Sales (Draft) and Data: the entries with the anchors
\* q1-sales-draft and data.
C27_Witness ==
    /\ mn.pc = "exited"
    /\ RunWrote(Len(mn.runs))
    /\ Len(Get(mn.data).sheets) = 2
    /\ Get(mn.fs.md)[5] = <<"-", " ", "[", "Q", "1", " ", "S", "a", "l", "e", "s", " ", "(", "D", "r", "a", "f", "t", ")", "]", "(", "#", "q", "1", "-", "s", "a", "l", "e", "s", "-", "d", "r", "a", "f", "t", ")">>
    /\ Get(mn.fs.md)[6] = <<"-", " ", "[", "D", "a", "t", "a", "]", "(", "#", "d", "a", "t", "a", ")">>

-----------------------------------------------------------------------------
(* Which ids the forest holds, against the ids of the parsed points.       *)

\* The ids of the points with a model id, as a set.
PointIdSet(points) == {PointIds(points)[i] : i \in 1..Len(PointIds(points))}

\* The ids of the nodes of a forest, as a set.
ForestIdSet(nodes) == {n.id : n \in ForestNodes(nodes)}

\* C28: every node of the forest build_smartart_hierarchy returns has the
\* id of a point parsed from the data model; a connection whose destination
\* is the model id of no point adds no node.  Violated: build_node is called
\* on every destination id of children_map and takes the text of an id that
\* is no point to be the empty string.
C28_ForestNodesArePoints ==
    sa.pc = "returned" => ForestIdSet(sa.nodes) \subseteq PointIdSet(sa.points)

\* C29: every point with a model id occurs in the forest
\* build_smartart_hierarchy returns, points on a cycle that no root reaches
\* included.  Violated: when some point has indegree zero only the roots are
\* built, and the points of a cycle apart from them are in no tree.
C29_NoPointIsLost ==
    sa.pc = "returned" => PointIdSet(sa.points) \subseteq ForestIdSet(sa.nodes)

-----------------------------------------------------------------------------
(* The kind of an anchor.                                                  *)

\* The loop is at an anchor.
AtAnchor == ex.pc = "loop" /\ ex.done < Len(ex.anchors)

\* C30: the classification of an anchor stops at the first kind present,
\* in the order picture, shape, graphic frame: the round of an anchor with
\* a pic child adds no shape text and no diagram reference, and the round
\* of an anchor with an sp child adds no diagram reference, also when the
\* picture gave no image or the shape no text.
C30_FirstKindPresentWins ==
    [][AtAnchor =>
          LET anchor == ex.anchors[ex.done + 1]
          IN  /\ ex'.done = ex.done + 1
              /\ anchor.pic # None =>
                    /\ ex'.shapes = ex.shapes
                    /\ ex'.smartart_refs = ex.smartart_refs
              /\ anchor.sp # None => ex'.smartart_refs = ex.smartart_refs
              /\ (anchor.pic = None /\ anchor.sp # None) => ex'.images = ex.images]_vars

\* A shape with blank text beside a diagram frame, then a picture whose id
\* is in no relationship beside a diagram frame, both frames with a
\* data-model id that resolves: the two rounds added nothing.
C30_Witness ==
    /\ ex.pc = "returned"
    /\ DrawingRelElements # <<>>
    /\ Len(ex.anchors) = 2
    /\ ex.anchors[1].pic = None
    /\ ex.anchors[1].sp = Sp(<< Some(<<" ">>) >>)
    /\ ex.anchors[1].graphicFrame = GraphicFrame(DiagramUri, RelIds("rId4", "rId5", "", ""))
    /\ ex.anchors[2].pic = Pic("rId9")
    /\ ex.anchors[2].graphicFrame = GraphicFrame(DiagramUri, RelIds("rId4", "", "", ""))
    /\ ex.images = <<>>
    /\ ex.shapes = <<>>
    /\ ex.smartart_refs = <<>>

=============================================================================
